---- MODULE Spec2Model ----
(***************************************************************************)
(* Script execution orchestrator of sh_runner (src/src/App.tsx,            *)
(* src/src/hooks/useStore.ts, src/unnamed/part_004 = lib/scripts).         *)
(*                                                                         *)
(* React state is modelled by two copies: the state every queued updater   *)
(* has been applied to (scripts, queue, scriptsData) and the state of the  *)
(* last render (rScripts, rQueue, rScriptsData), which is what props,      *)
(* callback closures and scriptsRef.current hold.  Updates made inside a   *)
(* click or key handler are rendered at the end of that event; updates     *)
(* made after an await or inside an effect stay pending until Render.      *)
(***************************************************************************)
EXTENDS Integers, Sequences, FiniteSets, TLC

Paths == {"a", "b", "c", "d"}

\* the scripts of the folder in SpecRuns and SpecLive
SomePaths == {"a", "b", "c"}

\* number of run requests accepted in one behaviour
MaxRuns == 3

\* number of run requests accepted in one behaviour of SpecFifo
MaxFifoRuns == 5

ExecIds == 1..(IF MaxFifoRuns >= MaxRuns THEN MaxFifoRuns ELSE MaxRuns)

Modes == {"background", "terminal"}

VARIABLES
  settings,          \* AppSettings: maxConcurrent, historyLimit
  files,             \* script files on disk in the configured folders
  scripts,           \* useState scripts: path -> view (latest state)
  queue,             \* useState queue (latest state)
  rScripts,          \* scripts of the last render = scriptsRef.current
  rQueue,            \* queue of the last render (closures)
  scriptsData,       \* useStore scriptsData (latest state)
  rScriptsData,      \* scriptsData of the last render (closures)
  store,             \* durable store, key 'scripts'
  execs,             \* runScriptNow invocations
  started,           \* number of runScriptNow invocations so far
  requested,         \* number of accepted requestRun calls so far
  runningProcesses,  \* lib/scripts registry: path -> exec holding the child
  scan,              \* the scanScripts call in flight, if any
  calls,             \* lib/scripts executeScript invocations (SpecExec)
  resolution,        \* the run parameters of one script, from stored data to launch
  view,              \* useState scripts: path -> runCount and last-run fields (SpecWrite)
  saving,            \* useStore settings: last render, store, saveSettings calls
  folderScan,        \* one scanMultipleFolders call: the folders and its outcome
  entries            \* history entries built by runScriptNow (SpecEntries)

\* the state of the orchestrator scenarios
core == <<settings, files, scripts, queue, rScripts, rQueue, scriptsData,
          rScriptsData, store, execs, started, requested, runningProcesses, scan>>

\* the state the orchestrator scenarios leave alone
rest == <<calls, resolution, view, saving, folderScan, entries>>

\* the part of it the supervisor scenario leaves alone
exceptCalls == <<resolution, view, saving, folderScan, entries>>

\* the part of it the resolver scenario leaves alone
exceptResolution == <<calls, view, saving, folderScan, entries>>

\* the part of it the failing-write scenario leaves alone
exceptView == <<calls, resolution, saving, folderScan, entries>>

\* the part of it the settings scenario leaves alone
exceptSaving == <<calls, resolution, view, folderScan, entries>>

\* the part of it the folder scan scenario leaves alone
exceptFolderScan == <<calls, resolution, view, saving, entries>>

\* the part of it the history entry scenario leaves alone
exceptEntries == <<calls, resolution, view, saving, folderScan>>

vars == <<core, rest>>

----------------------------------------------------------------------------
\* Values

\* number of executeScript calls in one behaviour of SpecExec
MaxCalls == 2

CallIds == 1..MaxCalls

\* ExecutionResult (part_004:78-85); none before the call has returned
NoResult == [success |-> FALSE, exitCode |-> 0, timedOut |-> FALSE, returned |-> FALSE]

\* an executeScript call that has not been made
NoCall == [path |-> "-", timeoutSeconds |-> 0, pc |-> "none", timer |-> "none",
           timedOut |-> FALSE, child |-> "none", endless |-> FALSE,
           result |-> NoResult]

\* no parameters resolved
NoResolution == [pc |-> "none"]

\* types/index.ts:15, 5-12: runCount and the last-run fields of a script of the view
NoView == [runCount |-> 0, last |-> 0]

NoSaving == [pc |-> "none"]

NoFolderScan == [pc |-> "none"]

\* no scan of folders and no history entry built
LaterIdle == folderScan = NoFolderScan /\ entries = {}

RestIdle ==
  /\ calls = [c \in CallIds |-> NoCall]
  /\ resolution = NoResolution
  /\ view = [p \in Paths |-> NoView]
  /\ saving = NoSaving
  /\ LaterIdle

NoScript == [inView |-> FALSE, running |-> FALSE, queued |-> FALSE]

\* useStore.ts:84-100: last stands for the last-run fields (lastExecution, lastDuration,
\* lastOutput, lastError, lastExitCode, lastTimedOut): the entry they were copied from,
\* 0 when they are null; favorite stands for the fields the user sets (favorite, icon,
\* args, envVars, timeoutSeconds, tags)
defaultData == [runCount |-> 0, history |-> <<>>, last |-> 0, favorite |-> FALSE]

NoList == [p \in Paths |-> defaultData]

NoExec == [path |-> "-", mode |-> "background", via |-> "request", pc |-> "none",
           cur |-> defaultData, list |-> NoList]

Max(a, b) == IF a >= b THEN a ELSE b

Includes(q, p) == \E i \in 1..Len(q) : q[i] = p

Filter(q, S) == SelectSeq(q, LAMBDA id : id \in S)

Take(s, n) == IF Len(s) <= n THEN s ELSE SubSeq(s, 1, n)

\* App.tsx:155  scripts.filter(s => s.running).length
runningCount(s) == Cardinality({p \in Paths : s[p].inView /\ s[p].running})

\* App.tsx:463, 484  Math.max(1, settings.maxConcurrent || 1)
maxConcurrentOf(st) ==
  Max(1, IF st.maxConcurrent = 0 THEN 1 ELSE st.maxConcurrent)

\* prev.map(s => s.id === id ? {...s, ...change} : s): only a script of the view changes
SetRunning(s, p, r) == IF s[p].inView THEN [s EXCEPT ![p].running = r] ELSE s

SetQueued(s, p, v) == IF s[p].inView THEN [s EXCEPT ![p].queued = v] ELSE s

\* the React state a handler or effect updates
Cur == [scripts |-> scripts, queue |-> queue, execs |-> execs, started |-> started]

----------------------------------------------------------------------------
\* runScriptNow, up to its first await

\* App.tsx:361-380: mark running, then await executeScript; the callback holds the
\* recordExecution (and so the scriptsData) of the render that created it
\* (via: the call site, requestRun App.tsx:471 or the queue processor App.tsx:497)
StartBackground(R, p, data, via) ==
  LET e == R.started + 1 IN
  [scripts |-> SetQueued(SetRunning(R.scripts, p, TRUE), p, FALSE),
   queue   |-> R.queue,
   execs   |-> [R.execs EXCEPT ![e] =
                  [path |-> p, mode |-> "background", via |-> via, pc |-> "spawning",
                   cur |-> data[p], list |-> NoList]],
   started |-> e]

\* App.tsx:323-325: await runScriptInTerminal; no running state is set
StartTerminal(R, p, data) ==
  LET e == R.started + 1 IN
  [R EXCEPT !.execs[e] = [path |-> p, mode |-> "terminal", via |-> "request",
                          pc |-> "launching",
                          cur |-> data[p], list |-> NoList],
            !.started = e]

\* App.tsx:483-498: the queue processor effect of a render whose state is R
QueueProcessor(R, data) ==
  IF R.queue = <<>> THEN R
  ELSE IF runningCount(R.scripts) >= maxConcurrentOf(settings) THEN R
  ELSE LET nextId == Head(R.queue) IN
       IF ~R.scripts[nextId].inView
       THEN [R EXCEPT !.queue = Tail(R.queue)]
       ELSE StartBackground(
              [R EXCEPT !.queue = Tail(R.queue),
                        !.scripts = SetQueued(R.scripts, nextId, FALSE)],
              nextId, data, "queue")

Apply(R) ==
  /\ scripts' = R.scripts
  /\ queue' = R.queue
  /\ execs' = R.execs
  /\ started' = R.started

\* a render of state R (with scriptsData d) followed by its effects:
\* App.tsx:69-71 (scriptsRef.current = scripts) and the queue processor
Commit(R, d) ==
  /\ rScripts' = R.scripts
  /\ rQueue' = R.queue
  /\ rScriptsData' = d
  /\ Apply(QueueProcessor(R, d))

----------------------------------------------------------------------------
Init ==
  /\ settings \in [maxConcurrent : {1, 2}, historyLimit : {2}]
  /\ files = {"a", "b"}
  /\ scripts = [p \in Paths |-> NoScript]
  /\ queue = <<>>
  /\ rScripts = [p \in Paths |-> NoScript]
  /\ rQueue = <<>>
  /\ scriptsData = NoList
  /\ rScriptsData = NoList
  /\ store = NoList
  /\ execs = [e \in ExecIds |-> NoExec]
  /\ started = 0
  /\ requested = 0
  /\ runningProcesses = [p \in Paths |-> 0]
  /\ scan = [pc |-> "idle", queue |-> <<>>]
  /\ RestIdle

\* React renders the pending state updates and runs the effects of that render
Render ==
  /\ <<scripts, queue, scriptsData>> # <<rScripts, rQueue, rScriptsData>>
  /\ Commit(Cur, scriptsData)
  /\ UNCHANGED <<rest, settings, files, scriptsData, store, requested, runningProcesses, scan>>

\* acceptRun appending to the queue without looking for the id in it
acceptRunAppend(p, mode, cap) ==
  /\ requested < cap
  /\ requested' = requested + 1
  /\ UNCHANGED <<rest, settings, files, scriptsData, store, runningProcesses, scan>>
  /\ IF mode = "terminal"
     THEN /\ Apply(StartTerminal(Cur, p, rScriptsData))
          /\ UNCHANGED <<rScripts, rQueue, rScriptsData>>
     ELSE IF runningCount(rScripts) >= maxConcurrentOf(settings)
     THEN Commit([Cur EXCEPT
                    !.queue = Append(queue, p),
                    !.scripts = SetQueued(scripts, p, TRUE)],
                 scriptsData)
     ELSE Commit(StartBackground(Cur, p, rScriptsData, "request"), scriptsData)

\* acceptRun with terminal runs going through admission control too
acceptRunAdmitted(p, mode, cap) ==
  /\ requested < cap
  /\ requested' = requested + 1
  /\ UNCHANGED <<rest, settings, files, scriptsData, store, runningProcesses, scan>>
  /\ IF runningCount(rScripts) >= maxConcurrentOf(settings)
     THEN Commit([Cur EXCEPT
                    !.queue = IF Includes(queue, p) THEN queue ELSE Append(queue, p),
                    !.scripts = SetQueued(scripts, p, TRUE)],
                 scriptsData)
     ELSE IF mode = "terminal"
     THEN /\ Apply(StartTerminal(Cur, p, rScriptsData))
          /\ UNCHANGED <<rScripts, rQueue, rScriptsData>>
     ELSE Commit(StartBackground(Cur, p, rScriptsData, "request"), scriptsData)

\* App.tsx:461-471: the request is accepted: a terminal run starts at once, a
\* background run starts when scriptsRef.current shows a free slot and is queued otherwise
acceptRun(p, mode, cap) ==
  /\ requested < cap
  /\ requested' = requested + 1
  /\ UNCHANGED <<rest, settings, files, scriptsData, store, runningProcesses, scan>>
  /\ IF mode = "terminal"
     THEN /\ Apply(StartTerminal(Cur, p, rScriptsData))
          /\ UNCHANGED <<rScripts, rQueue, rScriptsData>>
     ELSE IF runningCount(rScripts) >= maxConcurrentOf(settings)
     THEN Commit([Cur EXCEPT
                    !.queue = IF Includes(queue, p) THEN queue ELSE Append(queue, p),
                    !.scripts = SetQueued(scripts, p, TRUE)],
                 scriptsData)
     ELSE Commit(StartBackground(Cur, p, rScriptsData, "request"), scriptsData)

\* requestRun with a guard that looks at script.running only
requestRunOfQueued(p, mode, cap) ==
  /\ rScripts[p].inView
  /\ IF rScripts[p].running
     THEN UNCHANGED vars
     ELSE acceptRun(p, mode, cap)

\* App.tsx:457-472: script is the entry of the rendered list the user acted on
requestRun(p, mode, cap) ==
  /\ rScripts[p].inView
  /\ IF rScripts[p].running \/ rScripts[p].queued
     THEN UNCHANGED vars
     ELSE acceptRun(p, mode, cap)

----------------------------------------------------------------------------
\* executeScript (part_004:92-183) and the rest of runScriptNow

\* part_004:128-129  child = await command.spawn(); runningProcesses.set(path, child)
Spawn(e) ==
  /\ execs[e].pc = "spawning"
  /\ execs' = [execs EXCEPT ![e].pc = "running"]
  /\ runningProcesses' = [runningProcesses EXCEPT ![execs[e].path] = e]
  /\ UNCHANGED <<rest, settings, files, scripts, queue, rScripts, rQueue, scriptsData,
                 rScriptsData, store, started, requested, scan>>

\* App.tsx:382-412: running: false, then recordExecution up to its first await
Finished(e) ==
  /\ scripts' = SetRunning(scripts, execs[e].path, FALSE)
  /\ execs' = [execs EXCEPT ![e].pc = "recGet"]

\* part_004:171-182 then App.tsx:382-412: spawn throws
SpawnFail(e) ==
  /\ execs[e].pc = "spawning"
  /\ runningProcesses' = [runningProcesses EXCEPT ![execs[e].path] = 0]
  /\ Finished(e)
  /\ UNCHANGED <<rest, settings, files, queue, rScripts, rQueue, scriptsData,
                 rScriptsData, store, started, requested, scan>>

\* Complete for the processes of the registry only
CompleteRegistered(e) ==
  /\ execs[e].pc = "running"
  /\ runningProcesses[execs[e].path] = e
  /\ runningProcesses' = [runningProcesses EXCEPT ![execs[e].path] = 0]
  /\ Finished(e)
  /\ UNCHANGED <<rest, settings, files, queue, rScripts, rQueue, scriptsData,
                 rScriptsData, store, started, requested, scan>>

\* part_004:147-170 then App.tsx:382-412: the close event of the process
Complete(e) ==
  /\ execs[e].pc = "running"
  /\ runningProcesses' = [runningProcesses EXCEPT ![execs[e].path] = 0]
  /\ Finished(e)
  /\ UNCHANGED <<rest, settings, files, queue, rScripts, rQueue, scriptsData,
                 rScriptsData, store, started, requested, scan>>

\* nextRecord putting the new entry behind the old ones
nextRecordAppended(current, entry, limit) ==
  LET all == current.history \o <<entry>>
  IN [runCount |-> current.runCount + 1,
      history |-> IF limit = 0 THEN all ELSE Take(all, limit),
      last |-> entry]

\* useStore.ts:177-193: the partial record recordExecution builds for entry from the
\* record current of its closure
nextRecord(current, entry, limit) ==
  LET all == <<entry>> \o current.history
  IN [runCount |-> current.runCount + 1,
      history |-> IF limit = 0 THEN all ELSE Take(all, limit),
      last |-> entry]

\* useStore.ts:102-106, 113-114: {...existing, ...data} for the data of a record call
Merge(existing, data) ==
  [existing EXCEPT !.runCount = data.runCount, !.history = data.history,
                   !.last = data.last]

\* useStore.ts:173-193: the partial record written by recordExecution of exec e
recordData(e) == nextRecord(execs[e].cur, e, settings.historyLimit)

\* useStore.ts:80-81  scripts = await store.get('scripts')
RecordGet(e) ==
  /\ execs[e].pc = "recGet"
  /\ execs' = [execs EXCEPT ![e].pc = "recSet", ![e].list = store]
  /\ UNCHANGED <<rest, settings, files, scripts, queue, rScripts, rQueue, scriptsData,
                 rScriptsData, store, started, requested, runningProcesses, scan>>

\* useStore.ts:83-109  merge into the list that was read, store.set, store.save
RecordSet(e) ==
  /\ execs[e].pc = "recSet"
  /\ store' = [execs[e].list EXCEPT
                ![execs[e].path] = Merge(execs[e].list[execs[e].path], recordData(e))]
  /\ execs' = [execs EXCEPT ![e].pc = "recCommit", ![e].list = NoList]
  /\ UNCHANGED <<rest, settings, files, scripts, queue, rScripts, rQueue, scriptsData,
                 rScriptsData, started, requested, runningProcesses, scan>>

\* useStore.ts:111-116  setScriptsData(prev => ...)
RecordCommit(e) ==
  /\ execs[e].pc = "recCommit"
  /\ scriptsData' = [scriptsData EXCEPT
                      ![execs[e].path] = Merge(scriptsData[execs[e].path], recordData(e))]
  /\ execs' = [execs EXCEPT ![e].pc = "done", ![e].cur = defaultData]
  /\ UNCHANGED <<rest, settings, files, scripts, queue, rScripts, rQueue,
                 rScriptsData, store, started, requested, runningProcesses, scan>>

\* App.tsx:325-336: runScriptInTerminal resolved, recordExecution begins
TerminalLaunched(e) ==
  /\ execs[e].pc = "launching"
  /\ execs' = [execs EXCEPT ![e].pc = "recGet"]
  /\ UNCHANGED <<rest, settings, files, scripts, queue, rScripts, rQueue, scriptsData,
                 rScriptsData, store, started, requested, runningProcesses, scan>>

\* App.tsx:354-357: runScriptInTerminal threw
TerminalFail(e) ==
  /\ execs[e].pc = "launching"
  /\ execs' = [execs EXCEPT ![e].pc = "done", ![e].cur = defaultData]
  /\ UNCHANGED <<rest, settings, files, scripts, queue, rScripts, rQueue, scriptsData,
                 rScriptsData, store, started, requested, runningProcesses, scan>>

----------------------------------------------------------------------------
\* cancel, force reset, dequeue

\* App.tsx:500-511 with part_004:185-197; kill resolves (ok) or throws
handleCancelScript(p, ok) ==
  /\ rScripts[p].inView /\ rScripts[p].running
  /\ IF runningProcesses[p] # 0 /\ ok
     THEN /\ runningProcesses' = [runningProcesses EXCEPT ![p] = 0]
          /\ scripts' = SetRunning(scripts, p, FALSE)
     ELSE UNCHANGED <<runningProcesses, scripts>>
  /\ UNCHANGED <<rest, settings, files, queue, rScripts, rQueue, scriptsData,
                 rScriptsData, store, execs, started, requested, scan>>

\* handleForceReset emptying the whole queue
handleForceResetAll(p) ==
  /\ rScripts[p].inView /\ (rScripts[p].running \/ rScripts[p].queued)
  /\ Commit([Cur EXCEPT
               !.scripts = SetQueued(SetRunning(scripts, p, FALSE), p, FALSE),
               !.queue = <<>>],
            scriptsData)
  /\ UNCHANGED <<rest, settings, files, scriptsData, store, requested, runningProcesses, scan>>

\* handleForceReset taking the process of the script out of the registry
handleForceResetKill(p) ==
  /\ rScripts[p].inView /\ (rScripts[p].running \/ rScripts[p].queued)
  /\ Commit([Cur EXCEPT
               !.scripts = SetQueued(SetRunning(scripts, p, FALSE), p, FALSE),
               !.queue = Filter(queue, Paths \ {p})],
            scriptsData)
  /\ runningProcesses' = [runningProcesses EXCEPT ![p] = 0]
  /\ UNCHANGED <<rest, settings, files, scriptsData, store, requested, scan>>

\* App.tsx:513-521
handleForceReset(p) ==
  /\ rScripts[p].inView /\ (rScripts[p].running \/ rScripts[p].queued)
  /\ Commit([Cur EXCEPT
               !.scripts = SetQueued(SetRunning(scripts, p, FALSE), p, FALSE),
               !.queue = Filter(queue, Paths \ {p})],
            scriptsData)
  /\ UNCHANGED <<rest, settings, files, scriptsData, store, requested, runningProcesses, scan>>

\* handleDequeue clearing the queued flag only
handleDequeueFlagOnly(p) ==
  /\ rScripts[p].inView /\ rScripts[p].queued
  /\ Commit([Cur EXCEPT !.scripts = SetQueued(scripts, p, FALSE)], scriptsData)
  /\ UNCHANGED <<rest, settings, files, scriptsData, store, requested, runningProcesses, scan>>

\* App.tsx:523-527
handleDequeue(p) ==
  /\ rScripts[p].inView /\ rScripts[p].queued
  /\ Commit([Cur EXCEPT
               !.queue = Filter(queue, Paths \ {p}),
               !.scripts = SetQueued(scripts, p, FALSE)],
            scriptsData)
  /\ UNCHANGED <<rest, settings, files, scriptsData, store, requested, runningProcesses, scan>>

----------------------------------------------------------------------------
\* rescan

\* App.tsx:158-167: scanScripts is called; its closure holds the queue of the last render
scanStart ==
  /\ scan.pc = "idle"
  /\ scan' = [pc |-> "scanning", queue |-> rQueue]
  /\ UNCHANGED <<rest, settings, files, scripts, queue, rScripts, rQueue, scriptsData,
                 rScriptsData, store, execs, started, requested, runningProcesses>>

\* scanScripts leaving the queue as it is
scanScriptsKeepQueue ==
  /\ scan.pc = "scanning"
  /\ scripts' = [p \in Paths |->
                   IF p \in files
                   THEN [inView |-> TRUE,
                         running |-> rScripts[p].inView /\ rScripts[p].running,
                         queued |-> Includes(scan.queue, p)]
                   ELSE NoScript]
  /\ queue' = queue
  /\ scan' = [pc |-> "idle", queue |-> <<>>]
  /\ UNCHANGED <<rest, settings, files, rScripts, rQueue, scriptsData,
                 rScriptsData, store, execs, started, requested, runningProcesses>>

\* App.tsx:173-207: the list is built from scriptsRef.current and the closure's queue
scanScripts ==
  /\ scan.pc = "scanning"
  /\ scripts' = [p \in Paths |->
                   IF p \in files
                   THEN [inView |-> TRUE,
                         running |-> rScripts[p].inView /\ rScripts[p].running,
                         queued |-> Includes(scan.queue, p)]
                   ELSE NoScript]
  /\ queue' = Filter(queue, files)
  /\ scan' = [pc |-> "idle", queue |-> <<>>]
  /\ UNCHANGED <<rest, settings, files, rScripts, rQueue, scriptsData,
                 rScriptsData, store, execs, started, requested, runningProcesses>>

----------------------------------------------------------------------------
\* recordExecution (useStore.ts:173-194, 78-120) taken as one step
Record(e) ==
  /\ execs[e].pc = "recGet"
  /\ store' = [store EXCEPT ![execs[e].path] = Merge(store[execs[e].path], recordData(e))]
  /\ scriptsData' = [scriptsData EXCEPT
                      ![execs[e].path] = Merge(scriptsData[execs[e].path], recordData(e))]
  /\ execs' = [execs EXCEPT ![e].pc = "done", ![e].cur = defaultData]
  /\ UNCHANGED <<rest, settings, files, scripts, queue, rScripts, rQueue,
                 rScriptsData, started, requested, runningProcesses, scan>>

----------------------------------------------------------------------------
\* Spec: the orchestrator with every operation on a folder of two scripts;
\* recordExecution is one step
Next ==
  \/ Render
  \/ \E p \in Paths, mode \in Modes : requestRun(p, mode, MaxRuns)
  \/ \E e \in ExecIds : Spawn(e)
  \/ \E e \in ExecIds : SpawnFail(e)
  \/ \E e \in ExecIds : Complete(e)
  \/ \E e \in ExecIds : Record(e)
  \/ \E e \in ExecIds : TerminalLaunched(e)
  \/ \E e \in ExecIds : TerminalFail(e)
  \/ \E p \in Paths, ok \in BOOLEAN : handleCancelScript(p, ok)
  \/ \E p \in Paths : handleForceReset(p)
  \/ \E p \in Paths : handleDequeue(p)
  \/ scanStart
  \/ scanScripts

Spec == Init /\ [][Next]_vars

\* the state once the first scan (App.tsx:285-289) has been rendered
InitScanned ==
  /\ settings \in [maxConcurrent : {1, 2}, historyLimit : {2}]
  /\ files = SomePaths
  /\ scripts = [p \in Paths |-> IF p \in files THEN [NoScript EXCEPT !.inView = TRUE]
                                 ELSE NoScript]
  /\ queue = <<>>
  /\ rScripts = scripts
  /\ rQueue = <<>>
  /\ scriptsData = NoList
  /\ rScriptsData = NoList
  /\ store = NoList
  /\ execs = [e \in ExecIds |-> NoExec]
  /\ started = 0
  /\ requested = 0
  /\ runningProcesses = [p \in Paths |-> 0]
  /\ scan = [pc |-> "idle", queue |-> <<>>]
  /\ RestIdle

\* SpecRuns: background runs only (no cancel, reset, dequeue, rescan), with the
\* store accesses of recordExecution as separate steps
NextRuns ==
  \/ Render
  \/ \E p \in Paths : requestRun(p, "background", MaxRuns)
  \/ \E e \in ExecIds : Spawn(e)
  \/ \E e \in ExecIds : Complete(e)
  \/ \E e \in ExecIds : RecordGet(e)
  \/ \E e \in ExecIds : RecordSet(e)
  \/ \E e \in ExecIds : RecordCommit(e)

SpecRuns == InitScanned /\ [][NextRuns]_vars

\* SpecSingle: the runs of SpecRuns with one script in the folder
InitSingle ==
  /\ settings \in [maxConcurrent : {1, 2}, historyLimit : {2}]
  /\ files = {"a"}
  /\ scripts = [p \in Paths |-> IF p \in files THEN [NoScript EXCEPT !.inView = TRUE]
                                 ELSE NoScript]
  /\ queue = <<>>
  /\ rScripts = scripts
  /\ rQueue = <<>>
  /\ scriptsData = NoList
  /\ rScriptsData = NoList
  /\ store = NoList
  /\ execs = [e \in ExecIds |-> NoExec]
  /\ started = 0
  /\ requested = 0
  /\ runningProcesses = [p \in Paths |-> 0]
  /\ scan = [pc |-> "idle", queue |-> <<>>]
  /\ RestIdle

SpecSingle == InitSingle /\ [][NextRuns]_vars

\* SpecLive: runs and rescans; React renders pending updates, spawns resolve, every
\* process exits, store calls return and a started scan finishes
NextLive ==
  \/ Render
  \/ \E p \in Paths : requestRun(p, "background", MaxRuns)
  \/ \E e \in ExecIds : Spawn(e)
  \/ \E e \in ExecIds : Complete(e)
  \/ \E e \in ExecIds : Record(e)
  \/ scanStart
  \/ scanScripts

Fairness ==
  /\ WF_vars(Render)
  /\ WF_vars(scanScripts)
  /\ \A e \in ExecIds : WF_vars(Spawn(e)) /\ WF_vars(Complete(e)) /\ WF_vars(Record(e))

SpecLive == InitScanned /\ [][NextLive]_vars /\ Fairness

\* SpecFifo: four scripts and one slot; a is running and b, c were requested after
\* it and wait in the queue; runs and rescans from there (history is not recorded:
\* the store plays no part in the order of the queue)
InitFifo ==
  /\ settings \in [maxConcurrent : {1}, historyLimit : {2}]
  /\ files = Paths
  /\ scripts = [p \in Paths |->
                 [inView |-> TRUE, running |-> p = "a", queued |-> p \in {"b", "c"}]]
  /\ queue = <<"b", "c">>
  /\ rScripts = scripts
  /\ rQueue = queue
  /\ scriptsData = NoList
  /\ rScriptsData = NoList
  /\ store = NoList
  /\ execs = [e \in ExecIds |->
               IF e = 1 THEN [NoExec EXCEPT !.path = "a", !.pc = "running"] ELSE NoExec]
  /\ started = 1
  /\ requested = 3
  /\ runningProcesses = [p \in Paths |-> IF p = "a" THEN 1 ELSE 0]
  /\ scan = [pc |-> "idle", queue |-> <<>>]
  /\ RestIdle

NextFifo ==
  \/ Render
  \/ \E p \in Paths : requestRun(p, "background", MaxFifoRuns)
  \/ \E e \in ExecIds : Spawn(e)
  \/ \E e \in ExecIds : Complete(e)
  \/ scanStart
  \/ scanScripts

SpecFifo == InitFifo /\ [][NextFifo]_vars

----------------------------------------------------------------------------
\* Properties

\* executions whose process has been spawned and has not exited
LiveProcesses(p) == {e \in ExecIds : execs[e].path = p /\ execs[e].pc = "running"}

\* some execution of p was started by this step
StartsRun(p) == \E e \in (started + 1)..started' : execs'[e].path = p

Idle(s, p) == s[p].inView /\ ~s[p].running /\ ~s[p].queued

Pos(q, p) == CHOOSE i \in 1..Len(q) : q[i] = p

\* the executions of p
RunsOf(p) == {e \in ExecIds : execs[e].pc # "none" /\ execs[e].path = p}

\* the process of e has exited (or was never spawned) and runScriptNow went on
Completed(e) == execs[e].pc \in {"recGet", "recSet", "recCommit", "done"}

\* the history entry of e is in the durable store
Recorded(e) == \E i \in 1..Len(store[execs[e].path].history) :
                  store[execs[e].path].history[i] = e

Min(a, b) == IF a <= b THEN a ELSE b

\* C1: with maxConcurrent fixed, over background requestRun calls, completions and
\* queue promotions, the number of scripts whose state is Running never exceeds
\* max(1, maxConcurrent)
C1_RunningWithinLimit == runningCount(scripts) <= maxConcurrentOf(settings)

\* C2: promotion is strictly FIFO: a script of the queue does not become Running while
\* a script before it is still waiting in the queue, and no step reorders the queue
\* (entries keep their order, a new entry goes behind the old ones)
C2_Fifo ==
  [][/\ \A i, j \in 1..Len(queue) :
          (i < j /\ ~scripts[queue[j]].running /\ scripts'[queue[j]].running)
            => (scripts'[queue[i]].running \/ ~Includes(queue', queue[i]))
     /\ \A p, r \in Paths :
          (Includes(queue, p) /\ Includes(queue, r) /\ Pos(queue, p) < Pos(queue, r)
             /\ Includes(queue', p) /\ Includes(queue', r))
            => Pos(queue', p) < Pos(queue', r)
     /\ \A p, r \in Paths :
          (Includes(queue, p) /\ ~Includes(queue, r)
             /\ Includes(queue', p) /\ Includes(queue', r))
            => Pos(queue', p) < Pos(queue', r)]_vars

\* C3: at any time at most one spawned, not yet exited process exists per script path
C3_OneProcessPerPath == \A p \in Paths : Cardinality(LiveProcesses(p)) <= 1

C5_AdmitOrQueue ==
  [][\A p \in Paths :
       (requestRun(p, "background", MaxRuns) /\ Idle(scripts, p) /\ Idle(rScripts, p))
         => IF runningCount(scripts) >= maxConcurrentOf(settings)
            THEN scripts'[p].queued /\ ~scripts'[p].running
                 /\ queue' = Append(queue, p) /\ started' = started
            ELSE queue = <<>> => (scripts'[p].running /\ StartsRun(p))]_vars

\* a free slot with a non-empty queue leads to the head being removed and Running
HeadPromoted ==
  \A p \in Paths :
    (queue # <<>> /\ Head(queue) = p
       /\ runningCount(scripts) < maxConcurrentOf(settings))
      ~> (~Includes(queue, p) /\ scripts[p].running)

\* every queued script eventually leaves the queue
QueueDrains == \A p \in Paths : Includes(queue, p) ~> ~Includes(queue, p)

\* C6: when the queue is non-empty and the running count is below maxConcurrent the
\* head of the queue is eventually removed and Running; hence, every execution
\* completing, every queued script eventually runs or leaves the queue
C6_Promotion == HeadPromoted /\ QueueDrains

\* C7: a forceReset of a Running script while scripts are queued and no slot is free
\* promotes nothing: the step starts no execution
C7_ResetDoesNotPromote ==
  [][\A p \in Paths :
       (handleForceReset(p) /\ scripts[p].running /\ queue # <<>>
          /\ runningCount(scripts) >= maxConcurrentOf(settings))
         => started' = started]_vars

\* C8: a script in the view before and after a rescan keeps its Running status and is
\* Queued exactly if it is in the queue, whatever happened while the scan was in flight
C8_RescanPreservesRunState ==
  [][scanScripts =>
       \A p \in Paths :
         (scripts[p].inView /\ scripts'[p].inView)
           => /\ scripts'[p].running = scripts[p].running
              /\ scripts'[p].queued = Includes(queue', p)]_vars

\* while A's execution (the first) is in flight with maxConcurrent = 1, every other
\* accepted request is Queued and nothing else is started
QueuedAtOnce ==
  (settings.maxConcurrent = 1 /\ execs[1].pc \in {"spawning", "running"})
    => /\ started = 1
       /\ requested = 1 + Len(queue)
       /\ \A i \in 1..Len(queue) : scripts[queue[i]].queued /\ ~scripts[queue[i]].running

\* the run promoted from the queue starts only after A's execution has completed
RunsAfterCompletion ==
  (settings.maxConcurrent = 1 /\ execs[2].pc # "none" /\ execs[2].via = "queue")
    => Completed(1)

\* the process of the promoted run is spawned only after A's entry is in the store
RecordedBeforeStart ==
  (settings.maxConcurrent = 1 /\ execs[2].via = "queue"
     /\ execs[2].pc \notin {"none", "spawning"})
    => Recorded(1)

\* C9: with maxConcurrent = 1, A requested and then B: B is Queued at once, B becomes
\* Running only after A's execution has completed, and A's history entry has been
\* recorded before B's process is started
C9_EndToEnd == QueuedAtOnce /\ RunsAfterCompletion /\ RecordedBeforeStart

\* C10: once k executions of a script have completed and their record calls have
\* returned, the persisted runCount is k and the history holds the entries of those
\* executions, up to historyLimit
C10_NoLostUpdate ==
  \A p \in Paths :
    (RunsOf(p) # {} /\ \A e \in RunsOf(p) : execs[e].pc = "done")
      => LET k == Cardinality(RunsOf(p))
             h == store[p].history
         IN /\ store[p].runCount = k
            /\ Len(h) = IF settings.historyLimit = 0 THEN k
                        ELSE Min(k, settings.historyLimit)
            /\ \A i \in 1..Len(h) : h[i] \in RunsOf(p)

\* C11: when two different scripts have each run once and both record calls have
\* returned, however the calls overlapped, the durable store holds the history entry
\* and the runCount 1 of both
C11_WritesSerialized ==
  \A e1, e2 \in ExecIds :
    (/\ execs[e1].pc = "done" /\ execs[e2].pc = "done"
     /\ execs[e1].path # execs[e2].path
     /\ RunsOf(execs[e1].path) = {e1} /\ RunsOf(execs[e2].path) = {e2})
      => /\ Recorded(e1) /\ Recorded(e2)
         /\ store[execs[e1].path].runCount = 1
         /\ store[execs[e2].path].runCount = 1

----------------------------------------------------------------------------
\* The history store on its own: sequential calls, each made after the previous one
\* has returned and has been rendered

\* largest historyLimit and largest stored history a behaviour starts with
MaxHistory == 3

\* a stored history of h entries made before the behaviour starts, most recent first
OldHistory(h) == [i \in 1..h |-> 0 - i]

OldRecord(h, fav) ==
  [runCount |-> h, history |-> OldHistory(h), last |-> IF h = 0 THEN 0 ELSE 0 - 1,
   favorite |-> fav]

InitHistory ==
  /\ settings \in [maxConcurrent : {1}, historyLimit : 0..MaxHistory]
  /\ files = {"a"}
  /\ scripts = [p \in Paths |-> IF p \in files THEN [NoScript EXCEPT !.inView = TRUE]
                                 ELSE NoScript]
  /\ queue = <<>>
  /\ rScripts = scripts
  /\ rQueue = <<>>
  /\ \E h \in 0..MaxHistory, fav \in BOOLEAN :
       scriptsData = [NoList EXCEPT !["a"] = OldRecord(h, fav)]
  /\ rScriptsData = scriptsData
  /\ store = scriptsData
  /\ execs = [e \in ExecIds |-> NoExec]
  /\ started = 0
  /\ requested = 0
  /\ runningProcesses = [p \in Paths |-> 0]
  /\ scan = [pc |-> "idle", queue |-> <<>>]
  /\ RestIdle

\* useStore.ts:173-194 with 78-120: one record call for a new entry, started when the
\* previous call has been rendered (the closure holds the current scriptsData), run to
\* its end and rendered; the execution keeps the record its closure held
recordExecution(p) ==
  LET e == started + 1
      data == nextRecord(rScriptsData[p], e, settings.historyLimit)
  IN /\ rScripts[p].inView
     /\ e \in ExecIds
     /\ rScriptsData = scriptsData
     /\ store' = [store EXCEPT ![p] = Merge(store[p], data)]
     /\ scriptsData' = [scriptsData EXCEPT ![p] = Merge(scriptsData[p], data)]
     /\ rScriptsData' = scriptsData'
     /\ execs' = [execs EXCEPT ![e] = [NoExec EXCEPT !.path = p, !.pc = "done",
                                                     !.cur = rScriptsData[p]]]
     /\ started' = e
     /\ requested' = e
     /\ UNCHANGED <<rest, settings, files, scripts, queue, rScripts, rQueue,
                    runningProcesses, scan>>

NextHistory == \E p \in Paths : recordExecution(p)

SpecHistory == InitHistory /\ [][NextHistory]_vars

\* C12: after n sequential record calls on a script that had h entries, the history
\* has min(h + n, L) entries (h + n when L = 0), is ordered most recent first with the
\* n-th entry at its head, and runCount has grown by n
C12_RecordPrependsAndTruncates ==
  started >= 1 =>
    LET p == execs[1].path
        before == execs[1].cur
        n == started
        hist == store[p].history
        L == settings.historyLimit
    IN /\ Len(hist) = IF L = 0 THEN Len(before.history) + n
                      ELSE Min(Len(before.history) + n, L)
       /\ hist[1] = n
       /\ \A i, j \in 1..Len(hist) : i < j => hist[i] > hist[j]
       /\ hist = Take([i \in 1..n |-> n + 1 - i] \o before.history, Len(hist))
       /\ store[p].runCount = before.runCount + n

\* C12 witness: three sequential calls on a script that had one entry, with
\* historyLimit 2: the history was truncated
C12_RecordPrependsAndTruncates_witness ==
  /\ started = 3
  /\ settings.historyLimit = 2
  /\ Len(execs[1].cur.history) = 1
  /\ store[execs[1].path].history = <<3, 2>>

\* clearScriptHistory leaving the last-run fields as they are
clearHistoryOnly(p) ==
  /\ rScripts[p].inView
  /\ store' = [store EXCEPT ![p].history = <<>>]
  /\ scriptsData' = [scriptsData EXCEPT ![p].history = <<>>]
  /\ rScriptsData' = scriptsData'
  /\ UNCHANGED <<rest, settings, files, scripts, queue, rScripts, rQueue, execs, started,
                 requested, runningProcesses, scan>>

\* clearScriptHistory resetting runCount as well
clearHistoryAndCount(p) ==
  /\ rScripts[p].inView
  /\ store' = [store EXCEPT ![p].history = <<>>, ![p].last = 0, ![p].runCount = 0]
  /\ scriptsData' = [scriptsData EXCEPT ![p].history = <<>>, ![p].last = 0,
                                        ![p].runCount = 0]
  /\ rScriptsData' = scriptsData'
  /\ UNCHANGED <<rest, settings, files, scripts, queue, rScripts, rQueue, execs, started,
                 requested, runningProcesses, scan>>

\* useStore.ts:160-170 with 78-120: history: [] and the last-run fields null, merged
\* into the stored record and into scriptsData, then rendered
clearScriptHistory(p) ==
  /\ rScripts[p].inView
  /\ store' = [store EXCEPT ![p].history = <<>>, ![p].last = 0]
  /\ scriptsData' = [scriptsData EXCEPT ![p].history = <<>>, ![p].last = 0]
  /\ rScriptsData' = scriptsData'
  /\ UNCHANGED <<rest, settings, files, scripts, queue, rScripts, rQueue, execs, started,
                 requested, runningProcesses, scan>>

\* useStore.ts:128-132 with 78-120: one of the record updates that carry no history
toggleFavorite(p) ==
  LET newFavorite == ~rScriptsData[p].favorite
  IN /\ rScripts[p].inView
     /\ store' = [store EXCEPT ![p].favorite = newFavorite]
     /\ scriptsData' = [scriptsData EXCEPT ![p].favorite = newFavorite]
     /\ rScriptsData' = scriptsData'
     /\ UNCHANGED <<rest, settings, files, scripts, queue, rScripts, rQueue, execs, started,
                    requested, runningProcesses, scan>>

\* SpecRecords: record, clear and favorite calls on the stored record, one at a time
NextRecords ==
  \/ \E p \in Paths : recordExecution(p)
  \/ \E p \in Paths : clearScriptHistory(p)
  \/ \E p \in Paths : toggleFavorite(p)

SpecRecords == InitHistory /\ [][NextRecords]_vars

\* C13: in every persisted record the last-run fields are those of history[0] when
\* the history is non-empty, and are null exactly when it is empty
C13_LastMirrorsHead ==
  \A p \in Paths :
    /\ store[p].history # <<>> => store[p].last = store[p].history[1]
    /\ store[p].history = <<>> <=> store[p].last = 0

\* C13 witness: entries were recorded after a clear, and the last-run fields are
\* those of the newest entry
C13_LastMirrorsHead_witness ==
  \E p \in Paths :
    /\ Len(store[p].history) = 2
    /\ store[p].history[1] = 3
    /\ store[p].last = 3
    /\ settings.historyLimit = 0

\* C14: clear empties the history and resets the last-run fields of the script, and
\* leaves its runCount and user-set fields, and every other record, unchanged
C14_ClearKeepsRunCount ==
  [][\A p \in Paths :
       clearScriptHistory(p)
         => /\ store'[p] = [store[p] EXCEPT !.history = <<>>, !.last = 0]
            /\ store'[p].runCount = store[p].runCount
            /\ store'[p].favorite = store[p].favorite
            /\ scriptsData'[p].runCount = scriptsData[p].runCount
            /\ scriptsData'[p].history = <<>> /\ scriptsData'[p].last = 0
            /\ \A r \in Paths \ {p} : store'[r] = store[r]]_vars

\* C14 witness: a favorite script with three runs and a cleared history
C14_ClearKeepsRunCount_witness ==
  \E p \in Paths :
    /\ store[p].history = <<>> /\ store[p].last = 0
    /\ store[p].runCount = 3
    /\ store[p].favorite

\* C15: a cancel on a script that is not running returns false and changes nothing:
\* the scripts, the queue, the registry and the histories stay as they are
C15_CancelNotRunning ==
  [][\A p \in Paths, ok \in BOOLEAN :
       (handleCancelScript(p, ok) /\ ~scripts[p].running)
         => UNCHANGED <<scripts, queue, runningProcesses, scriptsData, store>>]_vars

----------------------------------------------------------------------------
\* SpecCancel: background runs of two scripts that the user may cancel, and rescans;
\* renders, spawns, process exits (a killed process closes too), store calls and
\* scans all come to an end
InitCancel ==
  /\ settings \in [maxConcurrent : {1, 2}, historyLimit : {2}]
  /\ files = {"a", "b"}
  /\ scripts = [p \in Paths |-> IF p \in files THEN [NoScript EXCEPT !.inView = TRUE]
                                 ELSE NoScript]
  /\ queue = <<>>
  /\ rScripts = scripts
  /\ rQueue = <<>>
  /\ scriptsData = NoList
  /\ rScriptsData = NoList
  /\ store = NoList
  /\ execs = [e \in ExecIds |-> NoExec]
  /\ started = 0
  /\ requested = 0
  /\ runningProcesses = [p \in Paths |-> 0]
  /\ scan = [pc |-> "idle", queue |-> <<>>]
  /\ RestIdle

NextCancel ==
  \/ Render
  \/ \E p \in Paths : requestRun(p, "background", MaxRuns)
  \/ \E e \in ExecIds : Spawn(e)
  \/ \E e \in ExecIds : Complete(e)
  \/ \E e \in ExecIds : Record(e)
  \/ \E p \in Paths, ok \in BOOLEAN : handleCancelScript(p, ok)
  \/ scanStart
  \/ scanScripts

SpecCancel == InitCancel /\ [][NextCancel]_vars /\ Fairness

\* the process of e is alive and cancelScript has taken it out of the registry
Killed(e) == execs[e].pc = "running" /\ runningProcesses[execs[e].path] # e

\* the number of entries of e in the stored history of its script
EntriesOf(e) ==
  Cardinality({i \in 1..Len(store[execs[e].path].history) :
                 store[execs[e].path].history[i] = e})

\* a killed process closes, and runScriptNow then records one entry for it
CancelledIsRecorded ==
  \A e \in ExecIds : Killed(e) ~> (execs[e].pc = "done" /\ EntriesOf(e) = 1)

\* once it has closed no promotion stays outstanding: the queue is empty or the
\* running count has reached maxConcurrent
CancelledPromotes ==
  \A e \in ExecIds :
    Killed(e) ~> (Completed(e)
                    /\ ~(queue # <<>>
                           /\ runningCount(scripts) < maxConcurrentOf(settings)))

----------------------------------------------------------------------------
\* SpecQueueOps: the four scripts of InitFifo (a running, b and c queued, one slot);
\* the user force-resets and dequeues scripts and requests one more run, processes
\* exit, the folder is rescanned
MaxQueueRuns == 4

NextQueueOps ==
  \/ Render
  \/ \E p \in Paths : requestRun(p, "background", MaxQueueRuns)
  \/ \E e \in ExecIds : Spawn(e)
  \/ \E e \in ExecIds : Complete(e)
  \/ \E p \in Paths : handleForceReset(p)
  \/ \E p \in Paths : handleDequeue(p)
  \/ scanStart
  \/ scanScripts

SpecQueueOps == InitFifo /\ [][NextQueueOps]_vars

\* the last render shows the current state: no state update is pending
Rendered == rScripts = scripts /\ rQueue = queue

C18_ResetLeavesProcesses ==
  [][\A p \in Paths :
       (handleForceReset(p) /\ (scripts[p].running \/ scripts[p].queued))
         => /\ ~scripts'[p].running /\ ~scripts'[p].queued /\ ~Includes(queue', p)
            /\ runningProcesses' = runningProcesses
            /\ \A e \in ExecIds : execs[e].pc # "none" => execs'[e] = execs[e]]_vars

\* C18 witness: a Running script was reset; it is Idle and its process is alive and
\* in the registry
C18_ResetLeavesProcesses_witness ==
  \E p \in Paths :
    /\ Idle(scripts, p) /\ Idle(rScripts, p)
    /\ runningProcesses[p] # 0
    /\ execs[runningProcesses[p]].pc = "running"
    /\ Cardinality(RunsOf(p)) = 1

\* the dequeue step: the script leaves the queue and is Idle, no execution is started
\* for it, no process is touched, the other entries keep their order
DequeueStep ==
  [][\A p \in Paths :
       (handleDequeue(p) /\ scripts[p].queued /\ ~scripts[p].running)
         => /\ ~Includes(queue', p) /\ Idle(scripts', p)
            /\ ~StartsRun(p)
            /\ runningProcesses' = runningProcesses
            /\ \A e \in ExecIds : execs[e].pc # "none" => execs'[e] = execs[e]
            /\ \A r, t \in Paths :
                 (Includes(queue', r) /\ Includes(queue', t))
                   => /\ Includes(queue, r) /\ Includes(queue, t)
                      /\ (Pos(queue', r) < Pos(queue', t))
                           = (Pos(queue, r) < Pos(queue, t))]_vars

\* a promotion starts the execution of a script of the queue only (a script a
\* requestRun has just put there included)
PromotesFromQueue ==
  [][\A e \in ExecIds :
       (execs[e].pc = "none" /\ execs'[e].pc # "none" /\ execs'[e].via = "queue")
         => \/ Includes(queue, execs'[e].path)
            \/ requestRun(execs'[e].path, "background", MaxQueueRuns)]_vars

\* a script enters the queue by a requestRun for it only
QueuedByRequest ==
  [][\A p \in Paths :
       (~Includes(queue, p) /\ Includes(queue', p))
         => requestRun(p, "background", MaxQueueRuns)]_vars

\* C19: dequeue of a Queued script takes it out of the queue and makes it Idle without
\* invoking the supervisor; unless it is requested again no later promotion spawns a
\* process for it; the other queued scripts keep their order
C19_DequeuedNeverPromoted == DequeueStep /\ PromotesFromQueue /\ QueuedByRequest

\* C19 witness: b was taken out of the queue b, c; a has completed and c, not b, was
\* promoted; b is Idle and has never run
C19_DequeuedNeverPromoted_witness ==
  /\ Completed(1)
  /\ execs[2].path = "c" /\ execs[2].via = "queue" /\ execs[2].pc = "running"
  /\ queue = <<>> /\ requested = 3
  /\ Idle(scripts, "b") /\ Idle(rScripts, "b")
  /\ RunsOf("b") = {}

\* a terminal requestRun on an Idle script starts the launch at once, whatever the
\* running count, and changes no script's state and not the queue
TerminalRequestStep ==
  [][\A p \in Paths :
       (requestRun(p, "terminal", MaxRuns) /\ Idle(rScripts, p) /\ requested < MaxRuns)
         => /\ started' = started + 1
            /\ execs'[started'].path = p /\ execs'[started'].mode = "terminal"
            /\ execs'[started'].pc = "launching"
            /\ scripts' = scripts /\ queue' = queue
            /\ runningCount(scripts') = runningCount(scripts)]_vars

\* no later step of a terminal run (launch, failure, record) changes a script's state
\* or the queue
TerminalRunSteps ==
  [][\A e \in ExecIds :
       (execs[e].mode = "terminal" /\ execs[e].pc # "none" /\ execs'[e] # execs[e])
         => scripts' = scripts /\ queue' = queue]_vars

\* C20: a terminal requestRun on an Idle script bypasses admission control: it is
\* launched even with maxConcurrent scripts Running, the script is never Running or
\* Queued and never in the queue, and the running count stays as it is
C20_TerminalBypass == TerminalRequestStep /\ TerminalRunSteps

\* C20 witness: with the only slot taken by a running script, another script, Idle,
\* has been launched in the terminal and recorded
C20_TerminalBypass_witness ==
  \E e \in ExecIds, p \in Paths :
    /\ settings.maxConcurrent = 1
    /\ runningCount(scripts) = 1 /\ runningCount(rScripts) = 1
    /\ execs[1].pc = "running" /\ execs[1].mode = "background"
    /\ e > 1 /\ execs[e].mode = "terminal" /\ execs[e].path = p /\ execs[e].pc = "done"
    /\ Recorded(e)
    /\ Idle(scripts, p) /\ ~Includes(queue, p)

----------------------------------------------------------------------------
\* The supervisor: executeScript and cancelScript of lib/scripts (part_004:89-197)
\* with the running flag runScriptNow keeps around the call (App.tsx:361-399)

\* exit codes of the close event: 0, a failure, and -1 for a missing code
ExitCodes == {0, 1, 0 - 1}

\* timeoutSeconds of a call: none, or a deadline
Timeouts == {0, 2}

NextCall == CHOOSE c \in CallIds : calls[c].pc = "none" /\ \A d \in 1..(c - 1) : calls[d].pc # "none"

\* App.tsx:361-379 and part_004:92-127: running: true, makeExecutable, the command is
\* built and command.spawn() is awaited
executeScript(p, timeoutSeconds) ==
  /\ p \in files
  /\ \E c \in CallIds : calls[c].pc = "none"
  /\ calls' = [calls EXCEPT ![NextCall] =
                 [NoCall EXCEPT !.path = p, !.timeoutSeconds = timeoutSeconds,
                                !.pc = "spawning"]]
  /\ scripts' = SetQueued(SetRunning(scripts, p, TRUE), p, FALSE)
  /\ UNCHANGED <<exceptCalls, settings, files, queue, rScripts, rQueue, scriptsData, rScriptsData,
                 store, execs, started, requested, runningProcesses, scan>>

\* spawned arming the timer whatever timeoutSeconds is
spawnedArmed(c, endless) ==
  /\ calls[c].pc = "spawning"
  /\ calls' = [calls EXCEPT ![c].pc = "waiting", ![c].child = "alive",
                            ![c].endless = endless, ![c].timer = "armed"]
  /\ runningProcesses' = [runningProcesses EXCEPT ![calls[c].path] = c]
  /\ UNCHANGED <<exceptCalls, settings, files, scripts, queue, rScripts, rQueue, scriptsData,
                 rScriptsData, store, execs, started, requested, scan>>

\* part_004:128-153: spawn resolved; the child is registered, the timer is armed when
\* timeoutSeconds > 0, the close and error listeners are set
spawned(c, endless) ==
  /\ calls[c].pc = "spawning"
  /\ calls' = [calls EXCEPT ![c].pc = "waiting", ![c].child = "alive",
                            ![c].endless = endless,
                            ![c].timer = IF calls[c].timeoutSeconds > 0
                                         THEN "armed" ELSE "none"]
  /\ runningProcesses' = [runningProcesses EXCEPT ![calls[c].path] = c]
  /\ UNCHANGED <<exceptCalls, settings, files, scripts, queue, rScripts, rQueue, scriptsData,
                 rScriptsData, store, execs, started, requested, scan>>

\* spawnFailed letting the error escape: no result, the running flag stays
spawnFailedThrown(c) ==
  /\ calls[c].pc = "spawning"
  /\ calls' = [calls EXCEPT ![c].pc = "thrown"]
  /\ runningProcesses' = [runningProcesses EXCEPT ![calls[c].path] = 0]
  /\ UNCHANGED <<exceptCalls, settings, files, scripts, queue, rScripts, rQueue, scriptsData,
                 rScriptsData, store, execs, started, requested, scan>>

\* part_004:171-182 then App.tsx:382-399: spawn threw; the catch block deletes the
\* registry entry of the path and returns the failure result, runScriptNow sets
\* running: false
spawnFailed(c) ==
  /\ calls[c].pc = "spawning"
  /\ calls' = [calls EXCEPT ![c].pc = "returned",
                            ![c].result = [success |-> FALSE, exitCode |-> 0 - 1,
                                           timedOut |-> FALSE, returned |-> TRUE]]
  /\ runningProcesses' = [runningProcesses EXCEPT ![calls[c].path] = 0]
  /\ scripts' = SetRunning(scripts, calls[c].path, FALSE)
  /\ UNCHANGED <<exceptCalls, settings, files, queue, rScripts, rQueue, scriptsData, rScriptsData,
                 store, execs, started, requested, scan>>

\* timeout killing the child without setting timedOut
timeoutUnmarked(c, ok) ==
  /\ calls[c].timer = "armed"
  /\ calls' = [calls EXCEPT ![c].timer = "fired",
                            ![c].child = IF ok /\ calls[c].child = "alive"
                                         THEN "killed" ELSE calls[c].child]
  /\ UNCHANGED <<exceptCalls, settings, files, scripts, queue, rScripts, rQueue, scriptsData,
                 rScriptsData, store, execs, started, requested, runningProcesses,
                 scan>>

\* part_004:136-143: the deadline expires: timedOut = true, child.kill() is awaited
\* and its error ignored (ok: the kill was delivered)
timeout(c, ok) ==
  /\ calls[c].timer = "armed"
  /\ calls' = [calls EXCEPT ![c].timer = "fired", ![c].timedOut = TRUE,
                            ![c].child = IF ok /\ calls[c].child = "alive"
                                         THEN "killed" ELSE calls[c].child]
  /\ UNCHANGED <<exceptCalls, settings, files, scripts, queue, rScripts, rQueue, scriptsData,
                 rScriptsData, store, execs, started, requested, runningProcesses,
                 scan>>

\* closed without clearTimeout
closedTimerKept(c, code) ==
  /\ calls[c].pc = "waiting"
  /\ calls[c].child = "killed" \/ ~calls[c].endless
  /\ calls' = [calls EXCEPT ![c].pc = "returned", ![c].child = "closed",
                            ![c].result = [success |-> code = 0 /\ ~calls[c].timedOut,
                                           exitCode |-> code,
                                           timedOut |-> calls[c].timedOut,
                                           returned |-> TRUE]]
  /\ runningProcesses' = [runningProcesses EXCEPT ![calls[c].path] = 0]
  /\ scripts' = SetRunning(scripts, calls[c].path, FALSE)
  /\ UNCHANGED <<exceptCalls, settings, files, queue, rScripts, rQueue, scriptsData, rScriptsData,
                 store, execs, started, requested, scan>>

\* part_004:146-170 then App.tsx:382-399: the close (or error) event of the child: a
\* process exits when it was killed or comes to its end; clearTimeout, the registry
\* entry of the path is deleted, the result is returned, runScriptNow sets running: false
closed(c, code) ==
  /\ calls[c].pc = "waiting"
  /\ calls[c].child = "killed" \/ ~calls[c].endless
  /\ calls' = [calls EXCEPT ![c].pc = "returned", ![c].child = "closed",
                            ![c].timer = IF calls[c].timer = "armed"
                                         THEN "cleared" ELSE calls[c].timer,
                            ![c].result = [success |-> code = 0 /\ ~calls[c].timedOut,
                                           exitCode |-> code,
                                           timedOut |-> calls[c].timedOut,
                                           returned |-> TRUE]]
  /\ runningProcesses' = [runningProcesses EXCEPT ![calls[c].path] = 0]
  /\ scripts' = SetRunning(scripts, calls[c].path, FALSE)
  /\ UNCHANGED <<exceptCalls, settings, files, queue, rScripts, rQueue, scriptsData, rScriptsData,
                 store, execs, started, requested, scan>>

\* part_004:185-197: the child registered for the path is killed and its entry
\* deleted (ok), or kill throws
cancelScript(p, ok) ==
  /\ runningProcesses[p] # 0
  /\ IF ok
     THEN /\ calls' = [calls EXCEPT ![runningProcesses[p]].child =
                         IF calls[runningProcesses[p]].child = "alive"
                         THEN "killed" ELSE calls[runningProcesses[p]].child]
          /\ runningProcesses' = [runningProcesses EXCEPT ![p] = 0]
     ELSE UNCHANGED <<calls, runningProcesses>>
  /\ UNCHANGED <<exceptCalls, settings, files, scripts, queue, rScripts, rQueue, scriptsData,
                 rScriptsData, store, execs, started, requested, scan>>

\* SpecExec: calls of executeScript for two scripts, with and without a timeout;
\* a started timer expires unless it is cleared, a process that was killed or is
\* finite closes
NextExec ==
  \/ \E p \in Paths, t \in Timeouts : executeScript(p, t)
  \/ \E c \in CallIds, endless \in BOOLEAN : spawned(c, endless)
  \/ \E c \in CallIds : spawnFailed(c)
  \/ \E c \in CallIds, ok \in BOOLEAN : timeout(c, ok)
  \/ \E c \in CallIds, code \in ExitCodes : closed(c, code)
  \/ \E p \in Paths, ok \in BOOLEAN : cancelScript(p, ok)

FairExec ==
  \A c \in CallIds :
    /\ WF_vars(\E endless \in BOOLEAN : spawned(c, endless) \/ spawnFailed(c))
    /\ WF_vars(\E code \in ExitCodes : closed(c, code))

\* the folder of two scripts scanned and rendered, no call made yet
InitExec ==
  /\ settings = [maxConcurrent |-> 2, historyLimit |-> 2]
  /\ files = {"a", "b"}
  /\ scripts = [p \in Paths |-> IF p \in files THEN [NoScript EXCEPT !.inView = TRUE]
                                 ELSE NoScript]
  /\ queue = <<>>
  /\ rScripts = scripts
  /\ rQueue = <<>>
  /\ scriptsData = NoList
  /\ rScriptsData = NoList
  /\ store = NoList
  /\ execs = [e \in ExecIds |-> NoExec]
  /\ started = 0
  /\ requested = 0
  /\ runningProcesses = [p \in Paths |-> 0]
  /\ scan = [pc |-> "idle", queue |-> <<>>]
  /\ RestIdle

SpecExec == InitExec /\ [][NextExec]_vars /\ FairExec

\* the expiring deadline marks the call timed out and kills its child
TimeoutMarks ==
  [][\A c \in CallIds, ok \in BOOLEAN :
       timeout(c, ok)
         => /\ calls[c].pc = "waiting" /\ calls'[c].timedOut
            /\ (ok /\ calls[c].child = "alive") => calls'[c].child = "killed"]_vars

\* a call whose deadline expired returns timedOut = true, success = false
TimedOutResult ==
  [](\A c \in CallIds :
       (calls[c].pc = "returned" /\ calls[c].timer = "fired")
         => calls[c].result.timedOut /\ ~calls[c].result.success)

\* once the kill is delivered (or the process ends by itself) the call returns
TimeoutReturns ==
  \A c \in CallIds :
    (calls[c].timer = "fired" /\ (calls[c].child = "killed" \/ ~calls[c].endless))
      ~> (calls[c].pc = "returned" /\ calls[c].result.timedOut
            /\ ~calls[c].result.success)

\* C21: with timeoutSeconds > 0 and the process alive when the deadline expires, the
\* supervisor sets timedOut and kills the process, executeScript then returns, and the
\* result has timedOut = true and success = false whatever the exit code
C21_TimeoutKills == TimeoutMarks /\ TimedOutResult /\ TimeoutReturns

\* C21 witness: an endless process was killed by its deadline and closed with exit
\* code 0; the result is timedOut and not a success
C21_TimeoutKills_witness ==
  \E c \in CallIds :
    /\ calls[c].endless /\ calls[c].timeoutSeconds > 0 /\ calls[c].timer = "fired"
    /\ calls[c].pc = "returned" /\ calls[c].result.exitCode = 0
    /\ calls[c].result.timedOut /\ ~calls[c].result.success

\* C22: a call with timeoutSeconds = 0 never has a timer and is never marked timed
\* out, its process is killed by a cancel only, and its result has timedOut = false
C22_NoTimeoutNoKill ==
  /\ [](\A c \in CallIds :
          (calls[c].pc # "none" /\ calls[c].timeoutSeconds = 0)
            => /\ calls[c].timer = "none" /\ ~calls[c].timedOut
               /\ ~calls[c].result.timedOut)
  /\ [][\A c \in CallIds :
          (calls[c].timeoutSeconds = 0 /\ calls[c].child = "alive"
             /\ calls'[c].child = "killed")
            => cancelScript(calls[c].path, TRUE)]_vars

\* C22 witness: an endless process without a timeout is still alive after a later
\* call with a timeout has timed out and returned
C22_NoTimeoutNoKill_witness ==
  /\ calls[1].timeoutSeconds = 0 /\ calls[1].endless
  /\ calls[1].pc = "waiting" /\ calls[1].child = "alive"
  /\ calls[2].timeoutSeconds > 0 /\ calls[2].pc = "returned" /\ calls[2].result.timedOut

\* C23: a call whose process closes before the deadline returns timedOut = false with
\* its timer cleared; no timer is armed once its call has returned, a cleared timer
\* stays cleared, and an expiring timer touches no other call
C23_TimerDisarmed ==
  /\ [](\A c \in CallIds :
          /\ calls[c].pc = "returned" => calls[c].timer # "armed"
          /\ (calls[c].pc = "returned" /\ calls[c].timer = "cleared")
               => ~calls[c].result.timedOut)
  /\ [][\A c \in CallIds :
          /\ calls[c].timer = "cleared" => calls'[c].timer = "cleared"
          /\ \A ok \in BOOLEAN :
               timeout(c, ok) => \A d \in CallIds \ {c} : calls'[d] = calls[d]]_vars

\* C23 witness: the first call closed before its deadline, and a later call of the
\* same script, with a deadline of its own, is running
C23_TimerDisarmed_witness ==
  /\ calls[1].timeoutSeconds > 0 /\ calls[1].pc = "returned"
  /\ calls[1].timer = "cleared" /\ ~calls[1].result.timedOut
  /\ calls[2].path = calls[1].path /\ calls[2].timer = "armed"
  /\ calls[2].pc = "waiting" /\ calls[2].child = "alive"

\* C24: a spawn failure is returned, not thrown: the result is success = false,
\* exitCode = -1, the registry has no entry for the path and the script is Idle again
C24_SpawnFailureReturned ==
  [][\A c \in CallIds :
       spawnFailed(c)
         => /\ calls'[c].pc = "returned"
            /\ calls'[c].result = [success |-> FALSE, exitCode |-> 0 - 1,
                                   timedOut |-> FALSE, returned |-> TRUE]
            /\ runningProcesses'[calls[c].path] = 0
            /\ ~scripts'[calls[c].path].running /\ ~scripts'[calls[c].path].queued]_vars

\* C24 witness: the spawn of the first call failed; the script was run again and that
\* call returned a success
C24_SpawnFailureReturned_witness ==
  /\ calls[1].pc = "returned" /\ calls[1].child = "none"
  /\ calls[1].result.exitCode = 0 - 1 /\ ~calls[1].result.success
  /\ calls[2].path = calls[1].path /\ calls[2].pc = "returned"
  /\ calls[2].result.success
  /\ Idle(scripts, calls[1].path) /\ runningProcesses[calls[1].path] = 0

----------------------------------------------------------------------------
\* The folder profile resolver and the run parameters (App.tsx:27-37, 168-180,
\* 368-373).  Strings are sequences of characters.

\* number of folder profiles in the settings
MaxProfiles == 2

\* getHomeDir (part_004:13-19)
homeDir == <<"/", "a">>

\* the script: /a/b/x
ScriptPath == <<"/", "a", "/", "b", "/", "x">>

\* configured profile paths: /a, /a/b, ~/b, /b, /a/c and the empty string
ProfilePaths == {<<"/", "a">>, <<"/", "a", "/", "b">>, <<"~", "/", "b">>,
                 <<"/", "b">>, <<"/", "a", "/", "c">>, <<>>}

\* FolderProfile (types/index.ts:34-40): path, defaultArgs, timeoutSeconds
Profiles == [path : ProfilePaths, defaultArgs : {"", "-p"}, timeoutSeconds : {0, 5}]

ProfileLists == UNION {[1..n -> Profiles] : n \in 0..MaxProfiles}

\* getScriptData(path): null, or the stored record (args, timeoutSeconds)
NoData == [present |-> FALSE, args |-> "", timeoutSeconds |-> 0]
DataRecords == {NoData} \cup [present : {TRUE}, args : {"", "-d"},
                              timeoutSeconds : {0 - 1, 0, 3}]

\* settings.defaultTimeout
DefaultTimeouts == {0, 7}

\* String.prototype.startsWith
StartsWith(s, prefix) ==
  Len(prefix) <= Len(s) /\ SubSeq(s, 1, Len(prefix)) = prefix

\* part_004:21-26
expandPath(path, home) ==
  IF StartsWith(path, <<"~", "/">>) THEN home \o Tail(path) ELSE path

\* App.tsx:168-171: the profiles with their expandedPath
Expanded(profiles, home) ==
  [i \in 1..Len(profiles) |->
     [path |-> profiles[i].path, defaultArgs |-> profiles[i].defaultArgs,
      timeoutSeconds |-> profiles[i].timeoutSeconds,
      expandedPath |-> expandPath(profiles[i].path, home), present |-> TRUE]]

\* matchProfile returning null
NoProfile == [path |-> <<>>, defaultArgs |-> "", timeoutSeconds |-> 0,
              expandedPath |-> <<>>, present |-> FALSE]

\* App.tsx:30-35: the loop of matchProfile from profile i on
RECURSIVE matchLoop(_, _, _, _, _)
matchLoop(scriptPath, profiles, i, best, bestLen) ==
  IF i > Len(profiles) THEN best
  ELSE IF StartsWith(scriptPath, profiles[i].expandedPath)
            /\ Len(profiles[i].expandedPath) > bestLen
       THEN matchLoop(scriptPath, profiles, i + 1, profiles[i],
                      Len(profiles[i].expandedPath))
       ELSE matchLoop(scriptPath, profiles, i + 1, best, bestLen)

\* matchProfile taking the last profile that matches
matchProfileLast(scriptPath, profiles) ==
  LET m == {i \in 1..Len(profiles) : StartsWith(scriptPath, profiles[i].expandedPath)}
  IN IF m = {} THEN NoProfile
     ELSE profiles[CHOOSE i \in m : \A j \in m : j <= i]

\* App.tsx:27-37
matchProfile(scriptPath, profiles) == matchLoop(scriptPath, profiles, 1, NoProfile, 0 - 1)

\* App.tsx:177: data?.args ?? profile?.defaultArgs ?? ''
scriptArgs(data, profile) ==
  IF data.present THEN data.args
  ELSE IF profile.present THEN profile.defaultArgs
  ELSE ""

\* scriptTimeout ignoring the profile
scriptTimeoutOwn(data, profile) ==
  IF data.present /\ data.timeoutSeconds # 0 /\ data.timeoutSeconds > 0
  THEN data.timeoutSeconds
  ELSE 0

\* App.tsx:178-180: data.timeoutSeconds if truthy and > 0, else
\* profile?.timeoutSeconds || 0
scriptTimeout(data, profile) ==
  IF data.present /\ data.timeoutSeconds # 0 /\ data.timeoutSeconds > 0
  THEN data.timeoutSeconds
  ELSE IF profile.present /\ profile.timeoutSeconds # 0 THEN profile.timeoutSeconds
  ELSE 0

\* App.tsx:369: script.args || ''
runArgs(script) == IF script.args # "" THEN script.args ELSE ""

\* App.tsx:370-372: script.timeoutSeconds if truthy and > 0, else settings.defaultTimeout
runTimeout(script, defaultTimeout) ==
  IF script.timeoutSeconds # 0 /\ script.timeoutSeconds > 0
  THEN script.timeoutSeconds
  ELSE defaultTimeout

\* the stored data, the profiles and the default of one script
InitResolve ==
  /\ settings = [maxConcurrent |-> 2, historyLimit |-> 2]
  /\ files = {"a"}
  /\ scripts = [p \in Paths |-> NoScript]
  /\ queue = <<>>
  /\ rScripts = scripts
  /\ rQueue = <<>>
  /\ scriptsData = NoList
  /\ rScriptsData = NoList
  /\ store = NoList
  /\ execs = [e \in ExecIds |-> NoExec]
  /\ started = 0
  /\ requested = 0
  /\ runningProcesses = [p \in Paths |-> 0]
  /\ scan = [pc |-> "idle", queue |-> <<>>]
  /\ calls = [c \in CallIds |-> NoCall]
  /\ view = [p \in Paths |-> NoView]
  /\ saving = NoSaving
  /\ LaterIdle
  /\ resolution \in [pc : {"stored"}, path : {ScriptPath}, data : DataRecords,
                     folderProfiles : ProfileLists, defaultTimeout : DefaultTimeouts,
                     profile : {NoProfile}, script : {[args |-> "", timeoutSeconds |-> 0]},
                     launch : {[args |-> "", timeoutSeconds |-> 0]}]

\* App.tsx:168-180: scanScripts builds the script entry
resolveScript ==
  /\ resolution.pc = "stored"
  /\ LET profile == matchProfile(resolution.path,
                                 Expanded(resolution.folderProfiles, homeDir))
     IN resolution' = [resolution EXCEPT
                         !.pc = "scanned",
                         !.profile = profile,
                         !.script = [args |-> scriptArgs(resolution.data, profile),
                                     timeoutSeconds |->
                                       scriptTimeout(resolution.data, profile)]]
  /\ UNCHANGED <<core, exceptResolution>>

\* App.tsx:368-379: runScriptNow derives the arguments of executeScript
launchScript ==
  /\ resolution.pc = "scanned"
  /\ resolution' = [resolution EXCEPT
                      !.pc = "launched",
                      !.launch = [args |-> runArgs(resolution.script),
                                  timeoutSeconds |->
                                    runTimeout(resolution.script,
                                               resolution.defaultTimeout)]]
  /\ UNCHANGED <<core, exceptResolution>>

NextResolve == resolveScript \/ launchScript

SpecResolve == InitResolve /\ [][NextResolve]_vars

\* C25: the effective timeout of a run is the record's timeoutSeconds if > 0, else the
\* matched profile's timeoutSeconds if > 0, else the global default
C25_TimeoutPrecedence ==
  resolution.pc = "launched"
    => resolution.launch.timeoutSeconds =
         (IF resolution.data.present /\ resolution.data.timeoutSeconds > 0
          THEN resolution.data.timeoutSeconds
          ELSE IF resolution.profile.present /\ resolution.profile.timeoutSeconds > 0
          THEN resolution.profile.timeoutSeconds
          ELSE resolution.defaultTimeout)

\* C25 witness: the record has no timeout of its own, the matched profile has one, and
\* the run uses the profile's, not the default
C25_TimeoutPrecedence_witness ==
  /\ resolution.pc = "launched"
  /\ resolution.data.present /\ resolution.data.timeoutSeconds = 0
  /\ resolution.profile.present /\ resolution.profile.timeoutSeconds = 5
  /\ resolution.defaultTimeout = 7
  /\ resolution.launch.timeoutSeconds = 5

\* C26: the effective argument string of a run is the record's args if non-empty, else
\* the matched profile's defaultArgs, else the empty string
C26_ArgsPrecedence ==
  resolution.pc = "launched"
    => resolution.launch.args =
         (IF resolution.data.present /\ resolution.data.args # ""
          THEN resolution.data.args
          ELSE IF resolution.profile.present THEN resolution.profile.defaultArgs
          ELSE "")

\* C27: matchProfile returns a profile whose expanded path is a prefix of the script
\* path and no matching profile has a longer one; it returns none when none matches
C27_LongestPrefix ==
  resolution.pc # "stored"
    => LET profiles == Expanded(resolution.folderProfiles, homeDir)
           matching == {i \in 1..Len(profiles) :
                          StartsWith(resolution.path, profiles[i].expandedPath)}
       IN IF matching = {} THEN ~resolution.profile.present
          ELSE \E i \in matching :
                 /\ resolution.profile = profiles[i]
                 /\ \A j \in matching :
                      Len(profiles[j].expandedPath) <= Len(profiles[i].expandedPath)

\* C27 witness: the profile of ~/b (= /a/b) comes before the profile of /a, and the
\* script /a/b/x resolves to the first
C27_LongestPrefix_witness ==
  /\ resolution.pc = "scanned"
  /\ Len(resolution.folderProfiles) = 2
  /\ resolution.folderProfiles[1].path = <<"~", "/", "b">>
  /\ resolution.folderProfiles[2].path = <<"/", "a">>
  /\ resolution.profile.present
  /\ resolution.profile.expandedPath = <<"/", "a", "/", "b">>

----------------------------------------------------------------------------
\* SpecWrite: one background run of a script whose record may fail to be written
\* (App.tsx:361-455 with useStore.ts:78-120, 173-194). The view of the script starts
\* as scanScripts built it from the stored record (App.tsx:182-199).

\* number of runs requested in a behaviour of SpecWrite
MaxWriteRuns == 1

\* App.tsx:182-199: runCount and the last-run fields scanScripts copies from the record
viewOf(data) == [runCount |-> data.runCount, last |-> data.last]

InitWrite ==
  /\ settings \in [maxConcurrent : {1}, historyLimit : 0..MaxHistory]
  /\ files = {"a"}
  /\ scripts = [p \in Paths |-> IF p \in files THEN [NoScript EXCEPT !.inView = TRUE]
                                 ELSE NoScript]
  /\ queue = <<>>
  /\ rScripts = scripts
  /\ rQueue = <<>>
  /\ \E h \in 0..MaxHistory, fav \in BOOLEAN :
       scriptsData = [NoList EXCEPT !["a"] = OldRecord(h, fav)]
  /\ rScriptsData = scriptsData
  /\ store = scriptsData
  /\ execs = [e \in ExecIds |-> NoExec]
  /\ started = 0
  /\ requested = 0
  /\ runningProcesses = [p \in Paths |-> 0]
  /\ scan = [pc |-> "idle", queue |-> <<>>]
  /\ calls = [c \in CallIds |-> NoCall]
  /\ resolution = NoResolution
  /\ view = [p \in Paths |-> viewOf(scriptsData[p])]
  /\ saving = NoSaving
  /\ LaterIdle

\* part_004:147-170 then App.tsx:382-412: the process closes, executeScript returns and
\* runScriptNow sets running: false, the last-run fields of this execution and
\* runCount: s.runCount + 1 in the view, then calls recordExecution
CompleteRun(e) ==
  /\ execs[e].pc = "running"
  /\ runningProcesses' = [runningProcesses EXCEPT ![execs[e].path] = 0]
  /\ Finished(e)
  /\ view' = [view EXCEPT ![execs[e].path] = [runCount |-> @.runCount + 1, last |-> e]]
  /\ UNCHANGED <<exceptView, settings, files, queue, rScripts, rQueue, scriptsData,
                 rScriptsData, store, started, requested, scan>>

\* useStore.ts:108-109 throws, 117-119: store.set or store.save rejects; the catch of
\* updateScriptData logs the error and returns, so the await of recordExecution
\* (useStore.ts:184) and the one of runScriptNow (App.tsx:412) resolve and runScriptNow
\* goes on to its notification and toast (App.tsx:414-443): pc "done", as after a
\* write that succeeded. pc "failed" is the catch of runScriptNow (App.tsx:444-454).
RecordSetFails(e) ==
  /\ execs[e].pc = "recSet"
  /\ execs' = [execs EXCEPT ![e].pc = "done", ![e].cur = defaultData, ![e].list = NoList]
  /\ UNCHANGED <<rest, settings, files, scripts, queue, rScripts, rQueue, scriptsData,
                 rScriptsData, store, started, requested, runningProcesses, scan>>

NextWrite ==
  \/ Render
  \/ \E p \in Paths : requestRun(p, "background", MaxWriteRuns)
  \/ \E e \in ExecIds : Spawn(e)
  \/ \E e \in ExecIds : CompleteRun(e)
  \/ \E e \in ExecIds : RecordGet(e)
  \/ \E e \in ExecIds : RecordSet(e)
  \/ \E e \in ExecIds : RecordSetFails(e)
  \/ \E e \in ExecIds : RecordCommit(e)

SpecWrite == InitWrite /\ [][NextWrite]_vars

\* C28: when the write of an execution's record to the durable store fails, the record
\* operation fails for its caller: runScriptNow does not go on as after a record that
\* was written
C28_WriteFailurePropagates ==
  [][\A e \in ExecIds : RecordSetFails(e) => execs'[e].pc = "failed"]_vars

\* C29: when the write of a completed execution's record fails, the script's
\* scriptsData entry and the runCount and last-run fields of its view are the ones
\* from before the execution completed (those of the record the run started with)
C29_ViewAfterConfirmedWrite ==
  [][\A e \in ExecIds :
       RecordSetFails(e)
         => /\ scriptsData'[execs[e].path] = execs[e].cur
            /\ view'[execs[e].path] = viewOf(execs[e].cur)]_vars

----------------------------------------------------------------------------
\* SpecSettings: saveSettings calls (useStore.ts:64-75) issued by the handlers of
\* App.tsx:546-558, each naming one field of the settings. settings is the latest
\* useState value, saving.rendered the value of the last render, which the closure of
\* saveSettings holds (useCallback with [settings]), saving.durable the store's copy.

\* number of saveSettings calls in a behaviour of SpecSettings
MaxSaves == 2

SaveIds == 1..MaxSaves

\* the partial updates of the calls: a field and its new value
SettingsUpdates ==
  {<<"maxConcurrent", 1>>, <<"maxConcurrent", 2>>, <<"historyLimit", 2>>,
   <<"historyLimit", 3>>}

NoSave == [pc |-> "none", field |-> "-", value |-> 0,
           updated |-> [maxConcurrent |-> 0, historyLimit |-> 0]]

InitSettings ==
  /\ settings \in [maxConcurrent : {1, 2}, historyLimit : {2, 3}]
  /\ files = {"a"}
  /\ scripts = [p \in Paths |-> NoScript]
  /\ queue = <<>>
  /\ rScripts = scripts
  /\ rQueue = <<>>
  /\ scriptsData = NoList
  /\ rScriptsData = NoList
  /\ store = NoList
  /\ execs = [e \in ExecIds |-> NoExec]
  /\ started = 0
  /\ requested = 0
  /\ runningProcesses = [p \in Paths |-> 0]
  /\ scan = [pc |-> "idle", queue |-> <<>>]
  /\ calls = [c \in CallIds |-> NoCall]
  /\ resolution = NoResolution
  /\ view = [p \in Paths |-> NoView]
  /\ saving = [pc |-> "loaded", rendered |-> settings, durable |-> settings,
               saves |-> [c \in SaveIds |-> NoSave]]
  /\ LaterIdle

\* what the settings scenario leaves alone
settingsFrame ==
  <<exceptSaving, files, scripts, queue, rScripts, rQueue, scriptsData, rScriptsData,
    store, execs, started, requested, runningProcesses, scan>>

\* the merge with the settings of the closure
mergeRendered(f, v) == [saving.rendered EXCEPT ![f] = v]

\* the merge with the latest settings
mergeLatest(f, v) == [settings EXCEPT ![f] = v]

\* useStore.ts:64-67: saveSettings({f: v}) is called and builds
\* updated = { ...settings, ...newSettings } from the settings of its closure
saveSettings(c, f, v) ==
  /\ saving.saves[c].pc = "none"
  /\ \A d \in SaveIds : d < c => saving.saves[d].pc # "none"
  /\ saving' = [saving EXCEPT !.saves[c] = [pc |-> "set", field |-> f, value |-> v,
                                            updated |-> mergeRendered(f, v)]]
  /\ UNCHANGED <<settings, settingsFrame>>

\* useStore.ts:68-69: store.set and store.save resolve
settingsWritten(c) ==
  /\ saving.saves[c].pc = "set"
  /\ saving' = [saving EXCEPT !.durable = saving.saves[c].updated,
                              !.saves[c].pc = "written"]
  /\ UNCHANGED <<settings, settingsFrame>>

\* useStore.ts:68-69, 71-74: store.set or store.save rejects; the error is rethrown
settingsWriteFails(c) ==
  /\ saving.saves[c].pc = "set"
  /\ saving' = [saving EXCEPT !.saves[c].pc = "failed"]
  /\ UNCHANGED <<settings, settingsFrame>>

\* useStore.ts:70: setSettings(updated)
setSettings(c) ==
  /\ saving.saves[c].pc = "written"
  /\ settings' = saving.saves[c].updated
  /\ saving' = [saving EXCEPT !.saves[c].pc = "done"]
  /\ UNCHANGED settingsFrame

\* a render: saveSettings is created again with the new settings (useStore.ts:75)
renderSettings ==
  /\ saving.rendered # settings
  /\ saving' = [saving EXCEPT !.rendered = settings]
  /\ UNCHANGED <<settings, settingsFrame>>

NextSettings ==
  \/ \E c \in SaveIds, u \in SettingsUpdates : saveSettings(c, u[1], u[2])
  \/ \E c \in SaveIds : settingsWritten(c)
  \/ \E c \in SaveIds : settingsWriteFails(c)
  \/ \E c \in SaveIds : setSettings(c)
  \/ renderSettings

SpecSettings == InitSettings /\ [][NextSettings]_vars

\* C30: the in-memory settings change only when a saveSettings call whose write to the
\* store succeeded commits, and the commit changes the field the call named and leaves
\* every other field at its latest committed value, also when another saveSettings
\* call was issued right before it
C30_SaveSettingsMerges ==
  [][settings' # settings
       => \E c \in SaveIds :
            /\ setSettings(c)
            /\ saving.saves[c].pc = "written"
            /\ settings' = mergeLatest(saving.saves[c].field, saving.saves[c].value)]_vars

----------------------------------------------------------------------------
\* SpecFolders: one scanMultipleFolders call (part_004:28-63) made by scanScripts
\* (App.tsx:164-214) over the configured folders, each of which is missing, unreadable
\* or readable. A path is <<folder, entry name>>.

\* settings.scriptsFolder and settings.additionalFolders (App.tsx:165)
allFolders == <<"f", "g">>

Folders == {allFolders[i] : i \in 1..Len(allFolders)}

\* the names of the directory entries; "t" does not end in .sh
EntryNames == {"t", "x", "y"}

\* part_004:41  entry.name.endsWith('.sh')
endsWithSh(name) == name \in {"x", "y"}

FolderStates == {"missing", "unreadable", "readable"}

\* a missing folder has no entries
Disks ==
  {d \in [Folders -> [state : FolderStates, names : SUBSET EntryNames]] :
     \A f \in Folders : d[f].state = "missing" => d[f].names = {}}

\* a.localeCompare(b) < 0 on names and folders of one letter
Before(a, b) == \/ a = "f" /\ b = "g"
                \/ a = "t" /\ b \in {"x", "y"}
                \/ a = "x" /\ b = "y"

\* path a sorts before path b
PathBefore(a, b) == Before(a[1], b[1]) \/ (a[1] = b[1] /\ Before(a[2], b[2]))

\* [...S].sort((a, b) => a.localeCompare(b)) of a set of paths
RECURSIVE sorted(_)
sorted(S) ==
  IF S = {} THEN <<>>
  ELSE LET first == CHOOSE a \in S : \A b \in S \ {a} : PathBefore(a, b)
       IN <<first>> \o sorted(S \ {first})

Range(q) == {q[i] : i \in 1..Len(q)}

\* part_004:28-47: throws when the folder does not exist (exists is false) or readDir
\* rejects; otherwise the sorted paths of its .sh entries
scanScriptsFolder(disk, folder) ==
  IF disk[folder].state # "readable"
  THEN [threw |-> TRUE, scripts |-> <<>>]
  ELSE [threw |-> FALSE,
        scripts |-> sorted({<<folder, n>> : n \in {m \in disk[folder].names : endsWithSh(m)}})]

InitFolders ==
  /\ settings = [maxConcurrent |-> 2, historyLimit |-> 2]
  /\ files = {"a"}
  /\ scripts = [p \in Paths |-> NoScript]
  /\ queue = <<>>
  /\ rScripts = scripts
  /\ rQueue = <<>>
  /\ scriptsData = NoList
  /\ rScriptsData = NoList
  /\ store = NoList
  /\ execs = [e \in ExecIds |-> NoExec]
  /\ started = 0
  /\ requested = 0
  /\ runningProcesses = [p \in Paths |-> 0]
  /\ scan = [pc |-> "idle", queue |-> <<>>]
  /\ calls = [c \in CallIds |-> NoCall]
  /\ resolution = NoResolution
  /\ view = [p \in Paths |-> NoView]
  /\ saving = NoSaving
  /\ entries = {}
  /\ folderScan \in [pc : {"called"}, disk : Disks, todo : {allFolders},
                     allScripts : {<<>>}, paths : {<<>>}, error : {FALSE}]

\* part_004:52-59: one turn of the loop; a folder whose scan throws is skipped
scanFolder ==
  /\ folderScan.pc = "called"
  /\ folderScan.todo # <<>>
  /\ LET r == scanScriptsFolder(folderScan.disk, Head(folderScan.todo))
     IN folderScan' = [folderScan EXCEPT
                         !.todo = Tail(@),
                         !.allScripts = IF r.threw THEN @ ELSE @ \o r.scripts]
  /\ UNCHANGED <<core, exceptFolderScan>>

\* part_004:61-62 then App.tsx:166, 173-207: scanMultipleFolders returns the paths
\* without duplicates, sorted; scanScripts builds its list from them. Nothing is
\* thrown, so the catch of scanScripts (App.tsx:208-211, setError) is not entered.
scanReturned ==
  /\ folderScan.pc = "called"
  /\ folderScan.todo = <<>>
  /\ folderScan' = [folderScan EXCEPT !.pc = "done",
                                      !.paths = sorted(Range(folderScan.allScripts))]
  /\ UNCHANGED <<core, exceptFolderScan>>

NextFolders == scanFolder \/ scanReturned

SpecFolders == InitFolders /\ [][NextFolders]_vars

\* the .sh entries of the folders that can be read
ReadableScripts ==
  UNION {{<<f, n>> : n \in {m \in folderScan.disk[f].names : endsWithSh(m)}} :
           f \in {g \in Folders : folderScan.disk[g].state = "readable"}}

NoFolderReadable == \A f \in Folders : folderScan.disk[f].state # "readable"

\* C31: a scan skips the folders that are missing or unreadable and returns the
\* scripts of the readable ones; when no configured folder is readable it reports an
\* error to its caller instead of returning an empty list
C31_ScanSkipsOrReports ==
  folderScan.pc = "done"
    => IF NoFolderReadable
       THEN folderScan.error
       ELSE ~folderScan.error /\ Range(folderScan.paths) = ReadableScripts

----------------------------------------------------------------------------
\* SpecRescan: rescans while script files disappear from and appear in the folder, with
\* a running and b queued at the start and d not yet on disk

\* number of run requests accepted in a behaviour of SpecRescan, the two of its
\* initial state included
MaxRescanRuns == 3

\* a script file is deleted from or created in a configured folder (the change
\* watchFolder reports, part_004:231-245)
fsChange(p) ==
  /\ files' = IF p \in files THEN files \ {p} ELSE files \cup {p}
  /\ UNCHANGED <<rest, settings, scripts, queue, rScripts, rQueue, scriptsData,
                 rScriptsData, store, execs, started, requested, runningProcesses, scan>>

InitRescan ==
  /\ settings \in [maxConcurrent : {1}, historyLimit : {2}]
  /\ files = {"a", "b"}
  /\ scripts = [p \in Paths |->
                 IF p \in files
                 THEN [inView |-> TRUE, running |-> p = "a", queued |-> p = "b"]
                 ELSE NoScript]
  /\ queue = <<"b">>
  /\ rScripts = scripts
  /\ rQueue = queue
  /\ scriptsData = NoList
  /\ rScriptsData = NoList
  /\ store = NoList
  /\ execs = [e \in ExecIds |->
               IF e = 1 THEN [NoExec EXCEPT !.path = "a", !.pc = "running"] ELSE NoExec]
  /\ started = 1
  /\ requested = 2
  /\ runningProcesses = [p \in Paths |-> IF p = "a" THEN 1 ELSE 0]
  /\ scan = [pc |-> "idle", queue |-> <<>>]
  /\ RestIdle

\* the files that come and go: b, queued at the start, and d, not yet discovered
ChangingPaths == {"b", "d"}

NextRescan ==
  \/ Render
  \/ \E p \in Paths : requestRun(p, "background", MaxRescanRuns)
  \/ \E e \in ExecIds : Spawn(e)
  \/ \E e \in ExecIds : Complete(e)
  \/ \E p \in ChangingPaths : fsChange(p)
  \/ scanStart
  \/ scanScripts

SpecRescan == InitRescan /\ [][NextRescan]_vars

\* nothing the application holds mentions p: p was never discovered, or every trace of
\* it is gone
Unknown(p) ==
  /\ ~scripts[p].inView /\ ~rScripts[p].inView
  /\ ~Includes(queue, p) /\ ~Includes(rQueue, p) /\ ~Includes(scan.queue, p)

\* execution e is started in this step by the queue processor
Promoted(e) == execs[e].pc = "none" /\ execs'[e].pc # "none" /\ execs'[e].via = "queue"

\* C32: when a rescan is applied, every script that is not on disk is absent from the
\* queue and from the view, and every script discovered for the first time is Idle;
\* the queue processor only ever promotes a script of the view
C32_RescanDropsAndAdds ==
  /\ [][scanScripts
          => /\ \A p \in Paths \ files : ~scripts'[p].inView /\ ~Includes(queue', p)
             /\ \A p \in files : Unknown(p) => Idle(scripts', p)]_vars
  /\ [][\A e \in ExecIds : Promoted(e) => scripts[execs'[e].path].inView]_vars

\* C32 witness: while a runs, a rescan has dropped the queued b, whose file is gone,
\* from the view and the queue, and has added the new d as Idle
C32_RescanDropsAndAdds_witness ==
  /\ files = {"a", "d"}
  /\ scan.pc = "idle"
  /\ execs[1].pc = "running"
  /\ ~scripts["b"].inView /\ ~Includes(queue, "b")
  /\ Idle(scripts, "d")

----------------------------------------------------------------------------
\* the state of script p in the list s
StateOf(s, p) ==
  IF s[p].running THEN "Running" ELSE IF s[p].queued THEN "Queued" ELSE "Idle"

\* the state changes of the state machine of a script
Transitions ==
  {<<"Idle", "Running">>, <<"Idle", "Queued">>, <<"Queued", "Running">>,
   <<"Queued", "Idle">>, <<"Running", "Idle">>}

\* C33: no script of the view is Running and Queued at the same time, and every change
\* of a script's state is one of Idle->Running, Idle->Queued, Queued->Running,
\* Queued->Idle, Running->Idle
C33_StateMachine ==
  /\ [](\A p \in Paths : scripts[p].inView => ~(scripts[p].running /\ scripts[p].queued))
  /\ [][\A p \in Paths :
          (scripts[p].inView /\ scripts'[p].inView
             /\ StateOf(scripts', p) # StateOf(scripts, p))
            => <<StateOf(scripts, p), StateOf(scripts', p)>> \in Transitions]_vars

----------------------------------------------------------------------------
\* SpecEntries: the history entries runScriptNow builds (App.tsx:322-336, 375-412) from
\* what executeScript returns (part_004:146-182). A value that may be null is a
\* sequence: <<>> for null, <<n>> for the number n.

\* number of runs in a behaviour of SpecEntries
MaxEntries == 2

EntryIds == 1..MaxEntries

Null == <<>>

\* the exit codes a close event carries: none (the process was killed by a signal), 0, 1
CloseCodes == {Null, <<0>>, <<1>>}

Durations == {0, 5}

\* data.code kept as it is
codeKept(code) == code

\* part_004:149  data.code ?? -1
codeOrMinusOne(code) == IF code = Null THEN <<0 - 1>> ELSE code

\* the runs started so far
Launched == {en.id : en \in entries}

\* App.tsx:323-336: runScriptInTerminal resolved; the entry of a terminal launch
terminalEntry(i) ==
  /\ i \in EntryIds \ Launched
  /\ entries' = entries \cup
       {[id |-> i, pc |-> "recorded", mode |-> "terminal", cause |-> "launched",
         exitCode |-> Null, duration |-> 0]}
  /\ UNCHANGED <<core, exceptEntries>>

\* App.tsx:361-380: a background run awaits executeScript
backgroundRun(i) ==
  /\ i \in EntryIds \ Launched
  /\ entries' = entries \cup
       {[id |-> i, pc |-> "running", mode |-> "background", cause |-> "-",
         exitCode |-> Null, duration |-> 0]}
  /\ UNCHANGED <<core, exceptEntries>>

\* App.tsx:401-412: the entry built from the result of executeScript
backgroundEntry(en, cause, exitCode, duration) ==
  [en EXCEPT !.pc = "recorded", !.cause = cause, !.exitCode = exitCode,
             !.duration = duration]

\* part_004:148-150, 163-170: the close event
closeEvent(en, code, duration) ==
  /\ en.pc = "running"
  /\ entries' = (entries \ {en}) \cup
       {backgroundEntry(en, IF code = Null THEN "nocode" ELSE "exit",
                        codeOrMinusOne(code), duration)}
  /\ UNCHANGED <<core, exceptEntries>>

\* part_004:151-153, 163-170: the error event
errorEvent(en, duration) ==
  /\ en.pc = "running"
  /\ entries' = (entries \ {en}) \cup {backgroundEntry(en, "error", <<0 - 1>>, duration)}
  /\ UNCHANGED <<core, exceptEntries>>

\* part_004:171-182: spawn threw
spawnThrew(en, duration) ==
  /\ en.pc = "running"
  /\ entries' = (entries \ {en}) \cup {backgroundEntry(en, "threw", <<0 - 1>>, duration)}
  /\ UNCHANGED <<core, exceptEntries>>

NextEntries ==
  \/ \E i \in EntryIds : terminalEntry(i)
  \/ \E i \in EntryIds : backgroundRun(i)
  \/ \E en \in entries, code \in CloseCodes, d \in Durations : closeEvent(en, code, d)
  \/ \E en \in entries, d \in Durations : errorEvent(en, d)
  \/ \E en \in entries, d \in Durations : spawnThrew(en, d)

InitEntries ==
  /\ settings = [maxConcurrent |-> 2, historyLimit |-> 2]
  /\ files = {"a"}
  /\ scripts = [p \in Paths |-> NoScript]
  /\ queue = <<>>
  /\ rScripts = scripts
  /\ rQueue = <<>>
  /\ scriptsData = NoList
  /\ rScriptsData = NoList
  /\ store = NoList
  /\ execs = [e \in ExecIds |-> NoExec]
  /\ started = 0
  /\ requested = 0
  /\ runningProcesses = [p \in Paths |-> 0]
  /\ scan = [pc |-> "idle", queue |-> <<>>]
  /\ RestIdle

SpecEntries == InitEntries /\ [][NextEntries]_vars

\* C34: in every history entry, exitCode is null exactly when mode is terminal: a
\* background entry has an integer exit code, -1 when the process gave none, and a
\* terminal entry has exitCode null and duration 0
C34_ExitCodeNullIffTerminal ==
  \A en \in entries :
    en.pc = "recorded"
      => /\ en.exitCode = Null <=> en.mode = "terminal"
         /\ en.mode = "terminal" => en.duration = 0
         /\ en.cause \in {"nocode", "error", "threw"} => en.exitCode = <<0 - 1>>

\* C34 witness: a terminal entry and the entry of a background run whose close event
\* carried no exit code
C34_ExitCodeNullIffTerminal_witness ==
  /\ \E en \in entries : en.pc = "recorded" /\ en.mode = "terminal"
  /\ \E en \in entries : en.pc = "recorded" /\ en.cause = "nocode"

----------------------------------------------------------------------------
\* C35: in every reachable state, a script of the view has its queued flag set exactly
\* when its path is in the queue, also after a rescan that was started before an
\* enqueue, a promotion or a dequeue and is applied after it
C35_QueuedFlagIsQueue ==
  \A p \in Paths : scripts[p].inView => (scripts[p].queued <=> Includes(queue, p))

----------------------------------------------------------------------------
\* executeScript of e returns in this step (the process closed or the spawn failed)
Returns(e) == execs[e].pc \in {"spawning", "running"} /\ execs'[e].pc = "recGet"

\* e is the most recently started execution of p and has not returned
LatestInFlight(e, p) ==
  /\ e \in RunsOf(p)
  /\ \A d \in RunsOf(p) : d <= e
  /\ execs[e].pc \in {"spawning", "running"}

\* C36: when an earlier execution of a script completes while the most recently
\* started execution of the script is in flight and the script is Running, the
\* script stays Running
C36_LateCompletionKeepsRunning ==
  [][\A p \in Paths : \A e, l \in ExecIds :
       (Returns(e) /\ execs[e].path = p /\ l # e /\ LatestInFlight(l, p)
          /\ scripts[p].running)
         => scripts'[p].running]_vars

----------------------------------------------------------------------------
\* execution e is started in this step by requestRun, in the background
Admitted(e) ==
  /\ execs[e].pc = "none" /\ execs'[e].pc # "none"
  /\ execs'[e].mode = "background" /\ execs'[e].via = "request"

\* C37: a background request is admitted directly to Running only when the queue is
\* empty, also between a completion and the promotion it triggers
C37_NoDirectStartPastQueue ==
  [][\A e \in ExecIds : Admitted(e) => queue = <<>>]_vars

----------------------------------------------------------------------------
\* SpecClear: background runs of one script that has a stored history, with
\* clearScriptHistory calls at any time
NextClear ==
  \/ Render
  \/ \E p \in Paths : requestRun(p, "background", MaxWriteRuns)
  \/ \E e \in ExecIds : Spawn(e)
  \/ \E e \in ExecIds : Complete(e)
  \/ \E e \in ExecIds : Record(e)
  \/ \E p \in Paths : clearScriptHistory(p)

SpecClear == InitHistory /\ [][NextClear]_vars

\* C38: entries removed by clear do not come back: when an execution is recorded and
\* the history of its script is empty, the history afterwards is the new entry alone
\* and runCount has grown by 1
C38_ClearedStaysCleared ==
  [][\A e \in ExecIds :
       (Record(e) /\ store[execs[e].path].history = <<>>
          /\ scriptsData[execs[e].path].history = <<>>)
         => /\ store'[execs[e].path].history = <<e>>
            /\ scriptsData'[execs[e].path].history = <<e>>
            /\ store'[execs[e].path].runCount = store[execs[e].path].runCount + 1]_vars

----------------------------------------------------------------------------
\* C39: an entry of the registry is the process of a spawned execution of its path that
\* has not completed; when executeScript returns, the registry holds no entry of the
\* returning execution, and the entry of another execution that is still running is
\* left in place
C39_RegistryTracksProcesses ==
  /\ [](\A p \in Paths :
          runningProcesses[p] # 0
            => /\ execs[runningProcesses[p]].pc = "running"
               /\ execs[runningProcesses[p]].path = p)
  /\ [][\A e \in ExecIds :
          Returns(e)
            => /\ runningProcesses'[execs[e].path] # e
               /\ \A l \in ExecIds \ {e} :
                    (execs[l].pc = "running" /\ runningProcesses[execs[l].path] = l)
                      => runningProcesses'[execs[l].path] = l]_vars

----------------------------------------------------------------------------
\* C40: the queue never contains the same script path twice, after any sequence of
\* requestRun, dequeue, forceReset, promotion and rescan
C40_QueueHasNoDuplicates ==
  \A i, j \in 1..Len(queue) : queue[i] = queue[j] => i = j

\* C40 witness: a script is in the queue and its entry of the rendered list shows it
\* Idle, so that a request on it is accepted, with a request left to make
C40_QueueHasNoDuplicates_witness ==
  /\ requested < MaxRuns
  /\ runningCount(rScripts) >= maxConcurrentOf(settings)
  /\ \E p \in Paths : Includes(queue, p) /\ Idle(rScripts, p)

====
